---- MODULE Spec2Model ----
(***************************************************************************)
(* Verification model of openshift-mcp-server.                             *)
(*                                                                         *)
(*   SpecOc    utils/oc.py: run_oc_command, run_oc_json, run_oc_debug_node *)
(*   SpecProm  utils/prometheus.py: the route cache and query_prometheus,  *)
(*             several invocations interleaved at their awaits             *)
(*   SpecTools tools/*.py: the report builders                             *)
(*   SpecFmt   utils/formatting.py: parse_quantity, format_bytes,          *)
(*             format_cpu                                                  *)
(*                                                                         *)
(* An exception is a record [exc, msg]; msg is the sequence of the pieces  *)
(* of the f-string that builds the message.  Every function result is a    *)
(* record [ok, val, err].                                                  *)
(***************************************************************************)
EXTENDS Integers, Sequences, FiniteSets, TLC

----------------------------------------------------------------------------
(* Bounds *)

\* longest argument list handed to run_oc_json
MaxArgs == 3
\* largest exit code of the child process
MaxExit == 2
\* query_prometheus invocations that can be in flight together
MaxTasks == 2
\* query_prometheus invocations in one run of the process
MaxQueries == 3
\* largest power of 1024 in a size handed to format_bytes
MaxSizeExp == 6

----------------------------------------------------------------------------
(* Values *)

None == "None"
NoErr == [exc |-> "None", msg |-> <<>>]

Ok(v) == [ok |-> TRUE, val |-> v, err |-> NoErr]
Raise(e) == [ok |-> FALSE, val |-> None, err |-> e]

OCError(m) == [exc |-> "OCError", msg |-> m]

\* str(e) of an exception, as one piece of text per f-string part
StrOf(e) == e.msg

\* the words of an argument list in the model
ArgWords == {"get", "pods", "logs", "-o", "--output", "-ojson", "--output=yaml"}

\* what the child process can write to stdout
StdoutTexts == {"{\"items\": []}", "not json", "", "\\xff"}
StderrTexts == {"", "error: forbidden"}

NodeNames == {"n1", "n2"}
Scripts == {"df -h", "du -sh /var/lib/containers"}

\* how the launch of the child process can end
LaunchOutcomes == {"started", "FileNotFoundError", "PermissionError"}

\* bytes.decode("utf-8"): every text of the model decodes but the lone 0xff
DecodeFails(bytes) == bytes = "\\xff"

\* the JSON texts `oc get nodes -o json` writes in the model
NodesTexts == {"nodes[]", "nodes[n2,n1]", "nodes[n1]", "nodes[item without metadata]",
               "nodes[n1 cpu=xm]", "[]"}

\* the JSON texts `oc get pods --all-namespaces -o json` writes in the model
PodsTexts == {"pods[]", "pods[a@n1]", "pods[a@n1,b@n1 Succeeded,c@n3,d unscheduled,e@n1]",
              "[]"}

\* the JSON texts of the kubelet stats summary of a node
StatsTexts == {"stats{}", "stats{node,pods}", "[]"}

\* the JSON texts the metrics backend answers a query with
EnvelopeTexts == {"{status: success, result: []}", "{status: error}",
                  "{status: success, result: [a=7, b=12, c=7]}",
                  "{status: success, result: [a=x]}", "[]"}

\* the JSON texts the metrics backend answers a query of a GPU metric with
GpuEnvelopeTexts == {"{status: success, result: []}", "{status: error}",
                     "{status: success, result: [n1/0=0]}",
                     "{status: success, result: [n1/0=90]}",
                     "{status: success, result: [n1/0=95, n2/0=4]}"}

\* the JSON texts of `oc get pvc`, of `oc get pods` with the volumes of the
\* pods, and of the kubelet stats summary with the volumes of the pods
PvcTexts == {"pvcs[]", "pvcs[db Bound]", "pvcs[db Bound, logs Pending]",
             "pvcs[db Bound, logs Bound]"}
MountPodsTexts == {"pods[]", "pods[p@n1 mounts db as data]",
                   "pods[p unscheduled mounts db as data]",
                   "pods[p@n1 mounts db as data, q@n1 mounts logs as data]",
                   "pods[p@n1 mounts db as data, q@n2 mounts logs as data]"}
VolumeStatsTexts == {"stats{}", "stats{p/data 96 of 100}", "stats{p/data 90 of 100}",
                     "stats{p/data 10 of 100}", "stats{p/data 0 of 0}",
                     "stats{q/data 97 of 100}",
                     "stats{p/data 10 of 100, q/data 97 of 100}"}

\* the JSON texts of `oc get pod <name>`
PodTexts == {"pod{}", "pod{c1 running}", "pod{init, c1 CrashLoopBackOff}",
             "pod{c1 CrashLoopBackOff before a restart}"}

\* the JSON texts of `oc get events` for the pod, oldest event first
EventsTexts == {"events[]", "events[Normal Pulled]",
                "events[Warning BackOff, Normal Pulled, Warning Failed]"}

\* json.loads: the texts of the model that are JSON documents
IsJson(text) ==
    text \in {"{\"items\": []}"} \cup NodesTexts \cup PodsTexts \cup StatsTexts
              \cup EnvelopeTexts \cup GpuEnvelopeTexts
              \cup PvcTexts \cup MountPodsTexts \cup VolumeStatsTexts \cup PodTexts
              \cup EventsTexts

JSONDecodeError == [exc |-> "JSONDecodeError", msg |-> <<"Expecting value">>]

\* the document json.loads returns is named by its text; its content is read
\* with NodeItems, PodItems, EnvelopeStatus and EnvelopeResult
json_loads(text) == IF IsJson(text) THEN Ok(text) ELSE Raise(JSONDecodeError)

----------------------------------------------------------------------------
(* State *)

VARIABLES
    oc_pc,       \* "ready" before the call, "returned" after it
    oc_entry,    \* which function was called
    oc_args,     \* the caller's argument list
    oc_cmd,      \* the argument list handed to the child process
    oc_proc,     \* what the child process does: launch, returncode, stdout, stderr
    oc_result    \* what the call returned or raised

ocVars == <<oc_pc, oc_entry, oc_args, oc_cmd, oc_proc, oc_result>>

VARIABLES
    prometheus_route_cache,   \* the module global _prometheus_route_cache
    credential,               \* the token the cluster issues now
    q_pc,                     \* where each invocation of query_prometheus is suspended
    q_route_host,             \* its local route_host
    q_token,                  \* its local token
    q_curl_cmd,               \* its local curl_cmd
    q_calls,                  \* the external commands it has issued
    q_result,                 \* what it returned or raised
    q_started                 \* invocations started so far

promVars == <<prometheus_route_cache, credential, q_pc, q_route_host, q_token,
              q_curl_cmd, q_calls, q_result, q_started>>

VARIABLES
    tool,         \* the tool that was invoked
    tool_pc,      \* where the invocation is suspended, "returned" or "raised" at its end
    tool_node,    \* the node argument of get_cluster_storage_report
    tool_args,    \* the arguments of the tool other than the node
    pending,      \* the fetches of the invocation that have not finished
    fetched,      \* the outcome of each finished fetch
    st_names,     \* the nodes still to analyze, the queries still to issue
    tool_lines,   \* the report built so far, and at the end the returned text
    tool_err,     \* the exception that left the tool
    issued        \* the oc commands the tool has issued itself, in order

toolVars == <<tool, tool_pc, tool_node, tool_args, pending, fetched, st_names, tool_lines,
              tool_err, issued>>

VARIABLES
    fmt_pc,       \* "ready" before the call, "loop" inside format_bytes, "returned" after
    fmt_fn,       \* which function of utils/formatting.py was called
    fmt_value,    \* its argument
    fmt_n,        \* format_bytes: the local n
    fmt_count,    \* format_bytes: the local count
    fmt_out       \* what the call returned or raised

fmtVars == <<fmt_pc, fmt_fn, fmt_value, fmt_n, fmt_count, fmt_out>>

vars == <<ocVars, promVars, toolVars, fmtVars>>

FmtParked ==
    /\ fmt_pc = "parked"
    /\ fmt_fn = "None"
    /\ fmt_value = <<>>
    /\ fmt_n = [m |-> 0, e |-> 0]
    /\ fmt_count = 0
    /\ fmt_out = [ok |-> TRUE, val |-> "None", err |-> [exc |-> "None", msg |-> <<>>]]

ToolsParked ==
    /\ tool = "None"
    /\ tool_pc = "parked"
    /\ tool_node = "None"
    /\ tool_args = <<>>
    /\ pending = {}
    /\ fetched = <<>>
    /\ st_names = <<>>
    /\ tool_lines = <<>>
    /\ tool_err = [exc |-> "None", msg |-> <<>>]
    /\ issued = <<>>

\* the state of a part of the program that a specification leaves alone
OcParked ==
    /\ oc_pc = "parked"
    /\ oc_entry = None
    /\ oc_args = <<>>
    /\ oc_cmd = <<>>
    /\ oc_proc = [launch |-> "started", returncode |-> 0, stdout |-> "", stderr |-> ""]
    /\ oc_result = [ok |-> TRUE, val |-> "None", err |-> [exc |-> "None", msg |-> <<>>]]

PromParked ==
    /\ prometheus_route_cache = "None"
    /\ credential = "t1\n"
    /\ q_pc = <<>>
    /\ q_route_host = <<>>
    /\ q_token = <<>>
    /\ q_curl_cmd = <<>>
    /\ q_calls = <<>>
    /\ q_result = <<>>
    /\ q_started = 0

----------------------------------------------------------------------------
(* utils/oc.py *)

\* the body of the try block of run_oc_command: lines 31-45
RunOcTryBody(proc) ==
    IF proc.launch # "started"
    THEN Raise([exc |-> proc.launch, msg |-> <<proc.launch>>])
    ELSE IF DecodeFails(proc.stdout) \/ DecodeFails(proc.stderr)
    THEN Raise([exc |-> "UnicodeDecodeError", msg |-> <<"'utf-8' codec can't decode">>])
    ELSE IF proc.returncode # 0
    THEN Raise(OCError(<<"Command failed with exit code ", ToString(proc.returncode),
                         ": ", proc.stderr>>))
    ELSE Ok(proc.stdout)

\* the except clauses of run_oc_command, tried in order: lines 47-50.
\* OCError derives from Exception, so the second clause also takes the
\* OCError raised inside the try block.
RunOcHandlers(r) ==
    IF r.ok THEN r
    ELSE IF r.err.exc = "FileNotFoundError"
    THEN Raise(OCError(<<"The 'oc' CLI tool is not found in PATH.">>))
    ELSE Raise(OCError(<<"Unexpected error executing oc: ">> \o StrOf(r.err)))

run_oc_command(proc) == RunOcHandlers(RunOcTryBody(proc))

\* line 93-94: the argument list run_oc_json hands to run_oc_command
InSeq(x, s) == \E i \in 1..Len(s) : s[i] = x

JsonArgs(args) ==
    IF InSeq("get", args) /\ ~InSeq("-o", args) /\ ~InSeq("--output", args)
    THEN args \o <<"-o", "json">>
    ELSE args

\* lines 96-101
JsonOfStdout_Wrap(r) ==
    IF ~r.ok \/ ~json_loads(r.val).ok
    THEN Raise(OCError(<<"Failed to parse JSON output from oc: ">>
                       \o (IF r.ok THEN StrOf(json_loads(r.val).err) ELSE StrOf(r.err))))
    ELSE json_loads(r.val)

JsonOfStdout(r) ==
    IF ~r.ok THEN r
    ELSE IF json_loads(r.val).ok THEN json_loads(r.val)
    ELSE Raise(OCError(<<"Failed to parse JSON output from oc: ">>
                       \o StrOf(json_loads(r.val).err)))

run_oc_json(proc) == JsonOfStdout(run_oc_command(proc))

\* lines 68-79
DebugArgs(node_name, script) ==
    <<"debug", <<"node/", node_name>>, "--", "chroot", "/host", "/bin/bash", "-c", script>>

run_oc_debug_node(proc) == run_oc_command(proc)

\* lines 103-115: only JSONDecodeError is turned into an OCError
get_node_stats_summary(proc) ==
    LET r == run_oc_command(proc) IN
    IF ~r.ok THEN r
    ELSE IF json_loads(r.val).ok THEN json_loads(r.val)
    ELSE Raise(OCError(<<"Failed to parse stats summary for node">>))

----------------------------------------------------------------------------
(* The command-runner specification *)

ArgLists == UNION {[1..n -> ArgWords] : n \in 1..MaxArgs}

Procs == [launch : LaunchOutcomes, returncode : 0..MaxExit,
          stdout : StdoutTexts, stderr : StderrTexts]

\* a process that was not started wrote nothing and has no exit code
RealProc(p) == p.launch # "started" => (p.returncode = 0 /\ p.stdout = "" /\ p.stderr = "")

InitOc ==
    /\ oc_pc = "ready"
    /\ oc_entry = None
    /\ oc_args \in ArgLists
    /\ oc_cmd = <<>>
    /\ oc_proc \in {p \in Procs : RealProc(p)}
    /\ oc_result = Ok(None)
    /\ PromParked
    /\ ToolsParked
    /\ FmtParked

CallRunOcCommand ==
    /\ oc_pc = "ready"
    /\ oc_pc' = "returned"
    /\ oc_entry' = "run_oc_command"
    /\ oc_cmd' = <<"oc">> \o oc_args
    /\ oc_result' = run_oc_command(oc_proc)
    /\ UNCHANGED <<oc_args, oc_proc, promVars, toolVars, fmtVars>>

CallRunOcJson ==
    /\ oc_pc = "ready"
    /\ oc_pc' = "returned"
    /\ oc_entry' = "run_oc_json"
    /\ oc_cmd' = <<"oc">> \o JsonArgs(oc_args)
    /\ oc_result' = run_oc_json(oc_proc)
    /\ UNCHANGED <<oc_args, oc_proc, promVars, toolVars, fmtVars>>

CallRunOcDebugNode ==
    /\ oc_pc = "ready"
    /\ oc_pc' = "returned"
    /\ oc_entry' = "run_oc_debug_node"
    /\ \E node_name \in NodeNames, script \in Scripts :
          oc_cmd' = <<"oc">> \o DebugArgs(node_name, script)
    /\ oc_result' = run_oc_debug_node(oc_proc)
    /\ UNCHANGED <<oc_args, oc_proc, promVars, toolVars, fmtVars>>

NextOc == CallRunOcCommand \/ CallRunOcJson \/ CallRunOcDebugNode

SpecOc == InitOc /\ [][NextOc]_vars

----------------------------------------------------------------------------
(* Claims about utils/oc.py *)

\* the failure kind of an OCError, read off the fixed head of its message
KindOf(e) ==
    IF e.exc # "OCError" THEN e.exc
    ELSE IF e.msg[1] = "Command failed with exit code " THEN "CommandFailed"
    ELSE IF e.msg[1] = "The 'oc' CLI tool is not found in PATH." THEN "ExecutableNotFound"
    ELSE IF e.msg[1] = "Unexpected error executing oc: " THEN "UnexpectedExecutionError"
    ELSE IF e.msg[1] = "Failed to parse JSON output from oc: " THEN "MalformedResponse"
    ELSE "Other"

OcReturned(entry) == oc_pc = "returned" /\ oc_entry = entry

Decodes(p) == ~DecodeFails(p.stdout) /\ ~DecodeFails(p.stderr)

\* C1: run_oc_command maps each outcome of the child process to one failure
\* kind: exit code 0 returns stdout; a nonzero exit code fails with
\* CommandFailed carrying the exit code and stderr, and not with
\* UnexpectedExecutionError; a missing executable fails with
\* ExecutableNotFound; UnexpectedExecutionError is kept for the other failures
\* (a launch failure, or output that cannot be decoded).
C1_ExitCodeKinds ==
    OcReturned("run_oc_command") =>
        /\ (oc_proc.launch = "started" /\ Decodes(oc_proc) /\ oc_proc.returncode = 0)
              => oc_result = Ok(oc_proc.stdout)
        /\ (oc_proc.launch = "started" /\ Decodes(oc_proc) /\ oc_proc.returncode # 0)
              => /\ ~oc_result.ok
                 /\ KindOf(oc_result.err) = "CommandFailed"
                 /\ oc_result.err.msg[2] = ToString(oc_proc.returncode)
                 /\ oc_result.err.msg[4] = oc_proc.stderr
        /\ oc_proc.launch = "FileNotFoundError"
              => (~oc_result.ok /\ KindOf(oc_result.err) = "ExecutableNotFound")
        /\ (~oc_result.ok /\ KindOf(oc_result.err) = "UnexpectedExecutionError")
              => (oc_proc.launch = "PermissionError" \/ ~Decodes(oc_proc))

\* the spellings of the output-format flag that oc accepts
OutputFlagForms == {"-o", "--output", "-ojson", "--output=yaml"}

SpecifiesOutput(args) == \E i \in 1..Len(args) : args[i] \in OutputFlagForms

\* a get-style request: the verb of the command is get
GetStyle(args) == Len(args) > 0 /\ args[1] = "get"

\* C7: run_oc_json appends -o json exactly when the argument list is a
\* get-style request that does not already specify an output format, in any
\* accepted form of the flag, and never to a non-get command; the caller's
\* list is left as it was.
C7_AppendsJsonFlags ==
    OcReturned("run_oc_json") =>
        /\ (GetStyle(oc_args) /\ ~SpecifiesOutput(oc_args))
              => oc_cmd = <<"oc">> \o oc_args \o <<"-o", "json">>
        /\ ~(GetStyle(oc_args) /\ ~SpecifiesOutput(oc_args))
              => oc_cmd = <<"oc">> \o oc_args

\* C8: run_oc_json and run_oc_debug_node raise the failure of run_oc_command
\* as it is, same kind and same message; run_oc_json reports stdout that is
\* not JSON with a failure that no outcome of the child process makes
\* run_oc_command raise.
C8_PropagateUnchanged ==
    /\ (OcReturned("run_oc_json") \/ OcReturned("run_oc_debug_node"))
          => (~run_oc_command(oc_proc).ok => oc_result = run_oc_command(oc_proc))
    /\ (OcReturned("run_oc_json") /\ run_oc_command(oc_proc).ok /\ ~IsJson(oc_proc.stdout))
          => /\ ~oc_result.ok
             /\ KindOf(oc_result.err) = "MalformedResponse"
             /\ \A p \in Procs : run_oc_command(p) # oc_result

C8_Witness ==
    /\ OcReturned("run_oc_json")
    /\ oc_proc.launch = "started" /\ oc_proc.returncode = 0 /\ oc_proc.stdout = "not json"
    /\ ~oc_result.ok

----------------------------------------------------------------------------
(* utils/prometheus.py *)

\* str.strip() on the texts the route lookup and whoami write
Strip(text) ==
    CASE text = "h1\n" -> "h1"
      [] text = " h2 \n" -> "h2"
      [] text = " \n" -> ""
      [] text = "t1\n" -> "t1"
      [] text = "t2\n" -> "t2"
      [] OTHER -> text

\* truth value of a str-or-None: None and "" are false
Truthy(v) == v # None /\ v # ""

Hosts == {"h1", "h2"}
Tokens == {"t1", "t2"}

\* what `oc get route prometheus-k8s -o jsonpath={.spec.host}` can do
LookupProcs ==
    {[launch |-> "started", returncode |-> 0, stdout |-> o, stderr |-> ""] :
        o \in {"h1\n", " h2 \n", " \n", ""}}
    \cup {[launch |-> "started", returncode |-> 1, stdout |-> "",
           stderr |-> "Error from server (NotFound)"],
          [launch |-> "FileNotFoundError", returncode |-> 0, stdout |-> "", stderr |-> ""]}

\* what `oc whoami -t` can do while the cluster issues credential cred
WhoamiProcs(cred) ==
    {[launch |-> "started", returncode |-> 0, stdout |-> cred, stderr |-> ""],
     [launch |-> "started", returncode |-> 1, stdout |-> "",
      stderr |-> "error: no token is currently in use"]}

\* what `oc get --raw <proxy path>?query=...` can do
ProxyProcs ==
    {[launch |-> "started", returncode |-> 0, stdout |-> o, stderr |-> ""] :
        o \in EnvelopeTexts \cup {"not json"}}
    \cup {[launch |-> "started", returncode |-> 1, stdout |-> "",
           stderr |-> "error: forbidden"]}

\* lines 23-24: the cache test of _get_prometheus_route
CacheHit_Never(cache) == FALSE

CacheHit(cache) == cache # None

\* lines 34-44: the cache after the route lookup returned r
CacheAfterLookup_Negative(cache, r) ==
    IF r.ok /\ Truthy(r.val) /\ Truthy(Strip(r.val)) THEN Strip(r.val) ELSE ""

CacheAfterLookup(cache, r) ==
    IF r.ok /\ Truthy(r.val) /\ Truthy(Strip(r.val)) THEN Strip(r.val) ELSE cache

\* lines 34-44: the value _get_prometheus_route returns after the lookup
RouteAfterLookup(r) ==
    IF r.ok /\ Truthy(r.val) /\ Truthy(Strip(r.val)) THEN Strip(r.val) ELSE None

\* lines 96-97: the bearer token taken from the output of whoami
BearerToken_Fixed(stdout) == "t1"

BearerToken(stdout) == Strip(stdout)

NoCmd == [token |-> None, host |-> None]

\* lines 104-108: curl -k -s -H "Authorization: Bearer <token>" https://<host>/...
CurlCmd(token, route_host) == [token |-> token, host |-> route_host]

\* line 1 imports run_command from utils/oc.py, and utils/oc.py defines no
\* such name: the name cannot be bound.  The functions of the module are
\* taken as they are written, and the call at line 111 ends with the failure
\* of that binding, which is no OCError and no JSONDecodeError.
run_command(curl_cmd) ==
    Raise([exc |-> "ImportError",
           msg |-> <<"cannot import name 'run_command' from 'openshift_mcp_server.utils.oc'">>])

\* lines 110-115: the try block around the HTTP request
QueryViaRouteTail(r) ==
    IF ~r.ok THEN r
    ELSE IF json_loads(r.val).ok THEN json_loads(r.val)
    ELSE Raise(OCError(<<"Invalid JSON from Prometheus route: ">>
                       \o StrOf(json_loads(r.val).err)))

\* lines 74-82: the try block around the proxy request
ProxyResult(r) ==
    IF ~r.ok THEN r
    ELSE IF json_loads(r.val).ok THEN json_loads(r.val)
    ELSE Raise(OCError(<<"Invalid JSON from Prometheus: ">> \o StrOf(json_loads(r.val).err)))

NoCalls == [lookup |-> 0, whoami |-> 0, curl |-> 0, proxy |-> 0]

Tasks == 1..MaxTasks

InitProm ==
    /\ prometheus_route_cache = None
    /\ credential \in {"t1\n", "t2\n"}
    /\ q_pc = [c \in Tasks |-> "idle"]
    /\ q_route_host = [c \in Tasks |-> None]
    /\ q_token = [c \in Tasks |-> None]
    /\ q_curl_cmd = [c \in Tasks |-> NoCmd]
    /\ q_calls = [c \in Tasks |-> NoCalls]
    /\ q_result = [c \in Tasks |-> Ok(None)]
    /\ q_started = 0
    /\ OcParked
    /\ ToolsParked
    /\ FmtParked

\* line 60 onwards with a true route_host: _query_via_route issues whoami and
\* suspends on it
EnterRoute(c, host, calls) ==
    /\ q_route_host' = [q_route_host EXCEPT ![c] = host]
    /\ q_calls' = [q_calls EXCEPT ![c] = [calls EXCEPT !.whoami = @ + 1]]
    /\ q_pc' = [q_pc EXCEPT ![c] = "whoami"]

\* line 70 onwards with the proxy request issued a second time
EnterProxy_Twice(c, host, calls) ==
    /\ q_route_host' = [q_route_host EXCEPT ![c] = host]
    /\ q_calls' = [q_calls EXCEPT ![c] = [calls EXCEPT !.proxy = @ + 2]]
    /\ q_pc' = [q_pc EXCEPT ![c] = "proxy"]

\* line 70 onwards: the proxy request is issued and the invocation suspends on it
EnterProxy(c, host, calls) ==
    /\ q_route_host' = [q_route_host EXCEPT ![c] = host]
    /\ q_calls' = [q_calls EXCEPT ![c] = [calls EXCEPT !.proxy = @ + 1]]
    /\ q_pc' = [q_pc EXCEPT ![c] = "proxy"]

\* query_prometheus is invoked: lines 46-60 and 14-32, up to its first await
QueryStart(c) ==
    /\ q_pc[c] \in {"idle", "returned"}
    /\ q_started < MaxQueries
    /\ q_started' = q_started + 1
    /\ q_token' = [q_token EXCEPT ![c] = None]
    /\ q_curl_cmd' = [q_curl_cmd EXCEPT ![c] = NoCmd]
    /\ q_result' = [q_result EXCEPT ![c] = Ok(None)]
    /\ IF CacheHit(prometheus_route_cache)
       THEN IF Truthy(prometheus_route_cache)
            THEN EnterRoute(c, prometheus_route_cache, NoCalls)
            ELSE EnterProxy(c, prometheus_route_cache, NoCalls)
       ELSE /\ q_route_host' = [q_route_host EXCEPT ![c] = None]
            /\ q_calls' = [q_calls EXCEPT ![c] = [NoCalls EXCEPT !.lookup = 1]]
            /\ q_pc' = [q_pc EXCEPT ![c] = "route_lookup"]
    /\ UNCHANGED <<prometheus_route_cache, credential, ocVars, toolVars, fmtVars>>

\* the route lookup returns: lines 34-44, then 60 onwards up to the next await
RouteLookupReturn(c) ==
    /\ q_pc[c] = "route_lookup"
    /\ \E p \in LookupProcs :
         LET r == run_oc_command(p) IN
         /\ prometheus_route_cache' = CacheAfterLookup(prometheus_route_cache, r)
         /\ IF Truthy(RouteAfterLookup(r))
            THEN EnterRoute(c, RouteAfterLookup(r), q_calls[c])
            ELSE EnterProxy(c, RouteAfterLookup(r), q_calls[c])
    /\ UNCHANGED <<credential, q_token, q_curl_cmd, q_result, q_started, ocVars, toolVars, fmtVars>>

\* whoami returns: lines 96-115; an OCError leaves through the except clause of
\* line 66 into the proxy request, anything else leaves query_prometheus
WhoamiReturn(c) ==
    /\ q_pc[c] = "whoami"
    /\ \E p \in WhoamiProcs(credential) :
         LET r == run_oc_command(p)
             token == BearerToken(r.val)
             cmd == CurlCmd(token, q_route_host[c])
             res == QueryViaRouteTail(run_command(cmd))
         IN
         IF ~r.ok
         THEN /\ EnterProxy(c, q_route_host[c], q_calls[c])
              /\ UNCHANGED <<q_token, q_curl_cmd, q_result>>
         ELSE /\ q_token' = [q_token EXCEPT ![c] = token]
              /\ q_curl_cmd' = [q_curl_cmd EXCEPT ![c] = cmd]
              /\ IF ~res.ok /\ res.err.exc = "OCError"
                 THEN /\ EnterProxy(c, q_route_host[c], [q_calls[c] EXCEPT !.curl = @ + 1])
                      /\ UNCHANGED q_result
                 ELSE /\ q_calls' = [q_calls EXCEPT ![c] = [@ EXCEPT !.curl = @ + 1]]
                      /\ q_result' = [q_result EXCEPT ![c] = res]
                      /\ q_pc' = [q_pc EXCEPT ![c] = "returned"]
                      /\ UNCHANGED q_route_host
    /\ UNCHANGED <<prometheus_route_cache, credential, q_started, ocVars, toolVars, fmtVars>>

\* the proxy request returns: lines 74-82
ProxyReturn(c) ==
    /\ q_pc[c] = "proxy"
    /\ \E p \in ProxyProcs :
         q_result' = [q_result EXCEPT ![c] = ProxyResult(run_oc_command(p))]
    /\ q_pc' = [q_pc EXCEPT ![c] = "returned"]
    /\ UNCHANGED <<prometheus_route_cache, credential, q_route_host, q_token,
                   q_curl_cmd, q_calls, q_started, ocVars, toolVars, fmtVars>>

\* the cluster rotates the credential it issues
RotateCredential ==
    /\ credential' \in {"t1\n", "t2\n"} \ {credential}
    /\ UNCHANGED <<prometheus_route_cache, q_pc, q_route_host, q_token,
                   q_curl_cmd, q_calls, q_result, q_started, ocVars, toolVars, fmtVars>>

NextProm ==
    \/ \E c \in Tasks : QueryStart(c)
    \/ \E c \in Tasks : RouteLookupReturn(c)
    \/ \E c \in Tasks : WhoamiReturn(c)
    \/ \E c \in Tasks : ProxyReturn(c)
    \/ RotateCredential

SpecProm == InitProm /\ [][NextProm]_vars

----------------------------------------------------------------------------
(* Claims about utils/prometheus.py *)

\* the step in which invocation c is made
Invoked(c) == q_pc[c] \in {"idle", "returned"} /\ q_pc'[c] \notin {"idle", "returned"}

\* the step in which invocation c issues the route lookup
LookupIssued(c) == q_pc[c] # "route_lookup" /\ q_pc'[c] = "route_lookup"

\* the step in which the route resolution of invocation c fails
ResolutionFailed(c) == q_pc[c] = "route_lookup" /\ q_pc'[c] = "proxy"

\* the step in which the route resolution of invocation c succeeds
ResolutionSucceeded(c) == q_pc[c] = "route_lookup" /\ q_pc'[c] = "whoami"

\* C2: when the route resolution of an invocation fails (the lookup command
\* fails or returns an empty host), that step leaves the cache as it was
\* (unset stays unset), the invocation issues the proxy request exactly once,
\* and an invocation made while the cache is unset issues the route lookup
\* again.
C2_NoCachingOfFailure ==
    [][\A c \in Tasks :
          /\ ResolutionFailed(c)
                => /\ prometheus_route_cache' = prometheus_route_cache
                   /\ q_calls'[c].proxy = 1
          /\ (q_pc'[c] = "returned" /\ q_calls'[c].lookup = 1 /\ ~Truthy(q_route_host'[c]))
                => q_calls'[c].proxy = 1
          /\ (Invoked(c) /\ prometheus_route_cache = None)
                => (LookupIssued(c) /\ q_calls'[c].lookup = 1)]_vars

C2_Witness ==
    /\ prometheus_route_cache = None
    /\ \E c, d \in Tasks :
          /\ q_pc[d] = "returned" /\ q_calls[d].lookup = 1 /\ q_calls[d].proxy = 1
          /\ q_route_host[d] = None
          /\ q_pc[c] = "route_lookup"
          /\ q_started >= 2

\* C3: a successful route resolution sets the cache, and from then on the
\* cache stays set and no invocation issues the route lookup, whatever the
\* later invocations and their outcomes are.
C3_NoLookupAfterResolution ==
    [][/\ \A c \in Tasks : ResolutionSucceeded(c) => prometheus_route_cache' # None
       /\ prometheus_route_cache # None
             => /\ prometheus_route_cache' # None
                /\ \A c \in Tasks : ~LookupIssued(c)]_vars

C3_Witness ==
    /\ prometheus_route_cache \in Hosts
    /\ \E c \in Tasks : q_pc[c] = "whoami" /\ q_calls[c].lookup = 0 /\ q_started >= 2

\* C4: once the cache holds a resolved host it is never overwritten with
\* another host and never reset to absent, under every interleaving.
C4_SetOnce ==
    [][prometheus_route_cache # None
          => prometheus_route_cache' = prometheus_route_cache]_vars

\* the route answered invocation c
RouteAnswered(c) == q_calls[c].curl = 1 /\ q_calls[c].proxy = 0 /\ q_result[c].ok

\* C5: an invocation that used the route and was not answered by it returns
\* the outcome of the proxy request: it issued the proxy request once and what
\* it returned or raised is what the proxy path makes of that request.
C5_RouteFailureFallsBack ==
    \A c \in Tasks :
        (q_pc[c] = "returned" /\ q_calls[c].whoami = 1 /\ ~RouteAnswered(c))
            => /\ q_calls[c].proxy = 1
               /\ \E p \in ProxyProcs : q_result[c] = ProxyResult(run_oc_command(p))

\* C6: every invocation issues whoami at most once, and exactly once when it
\* takes the route; the HTTP request of an invocation is built in the step in
\* which its own whoami returns, once, and carries the credential the cluster
\* issued to that whoami.
C6_FreshCredential ==
    [][\A c \in Tasks :
          /\ q_calls'[c].whoami <= 1
          /\ q_pc'[c] = "whoami" => q_calls'[c].whoami = 1
          /\ q_calls'[c].curl > q_calls[c].curl
                => /\ q_pc[c] = "whoami"
                   /\ q_calls[c].whoami = 1
                   /\ q_calls'[c].curl = 1
                   /\ q_curl_cmd'[c].token = Strip(credential)
                   /\ q_curl_cmd'[c].host = q_route_host[c]]_vars

C6_Witness ==
    \E c, d \in Tasks :
        /\ q_calls[c].curl = 1 /\ q_curl_cmd[c].token = "t1"
        /\ q_calls[d].curl = 1 /\ q_curl_cmd[d].token = "t2"
        /\ q_calls[d].lookup = 0

\* the commands an invocation has issued, each at most once
IssuedOnce(calls) ==
    calls.lookup <= 1 /\ calls.whoami <= 1 /\ calls.curl <= 1 /\ calls.proxy <= 1

\* the step in which the proxy request of invocation c returns: the invocation
\* ends with what the proxy path makes of the request, an OCError when it
\* failed, and issues nothing more
ProxySurfaced(c) ==
    q_pc[c] = "proxy" /\ q_pc'[c] # "proxy"
        => /\ q_pc'[c] = "returned"
           /\ q_calls'[c] = q_calls[c]
           /\ ~q_result'[c].ok => q_result'[c].err.exc = "OCError"
           /\ \E p \in ProxyProcs : q_result'[c] = ProxyResult(run_oc_command(p))

\* C21: nothing is retried: within one invocation of query_prometheus the
\* route lookup, the credential command, the route request and the proxy
\* request are each issued at most once, and when the proxy request returns
\* the invocation ends with its outcome, a failure as an error, without
\* issuing the request again.
C21_NoRetry ==
    /\ [](\A c \in Tasks : IssuedOnce(q_calls[c]))
    /\ [][\A c \in Tasks : ProxySurfaced(c)]_vars

C21_Witness ==
    \E c \in Tasks :
        /\ q_pc[c] = "returned" /\ ~q_result[c].ok /\ q_result[c].err.exc = "OCError"
        /\ q_calls[c] = [lookup |-> 1, whoami |-> 1, curl |-> 0, proxy |-> 1]

----------------------------------------------------------------------------
(* utils/formatting.py: parse_quantity *)

\* A quantity text is the sequence of its characters.  A number is kept in
\* thousandths, so that 500m is 500 and 2 is 2000.

Digits == {"0", "1", "2", "3", "4", "5", "6", "7", "8", "9"}

DigitVal(ch) ==
    CASE ch = "0" -> 0 [] ch = "1" -> 1 [] ch = "2" -> 2 [] ch = "3" -> 3 [] ch = "4" -> 4
      [] ch = "5" -> 5 [] ch = "6" -> 6 [] ch = "7" -> 7 [] ch = "8" -> 8 [] ch = "9" -> 9

NumOk(v) == [ok |-> TRUE, val |-> v, err |-> NoErr]
NumRaise(e) == [ok |-> FALSE, val |-> 0, err |-> e]

ValueError == [exc |-> "ValueError", msg |-> <<"could not convert string to float">>]

RECURSIVE DecimalValue(_)
DecimalValue(cs) ==
    IF cs = <<>> THEN 0
    ELSE DecimalValue(SubSeq(cs, 1, Len(cs) - 1)) * 10 + DigitVal(cs[Len(cs)])

\* the characters of an unsigned number text: digits with at most one point
\* and at least one digit
IsUnsigned(cs) ==
    /\ \A i \in 1..Len(cs) : cs[i] \in Digits \cup {"."}
    /\ \E i \in 1..Len(cs) : cs[i] \in Digits
    /\ Cardinality({i \in 1..Len(cs) : cs[i] = "."}) <= 1

\* the digits before the point and the digits after it
IntDigits(cs) ==
    IF \E i \in 1..Len(cs) : cs[i] = "."
    THEN SubSeq(cs, 1, (CHOOSE i \in 1..Len(cs) : cs[i] = ".") - 1)
    ELSE cs

FracDigits(cs) ==
    IF \E i \in 1..Len(cs) : cs[i] = "."
    THEN SubSeq(cs, (CHOOSE i \in 1..Len(cs) : cs[i] = ".") + 1, Len(cs))
    ELSE <<>>

\* the value of an unsigned number text in thousandths; the texts of the model
\* have three decimals at most
Thousandths(cs) ==
    DecimalValue(IntDigits(cs)) * 1000
    + DecimalValue(SubSeq(FracDigits(cs) \o <<"0", "0", "0">>, 1, 3))

\* the sign of a number text and the characters after it
Negative(cs) == cs # <<>> /\ cs[1] = "-"
Unsigned(cs) == IF Negative(cs) THEN Tail(cs) ELSE cs

\* the number of an unsigned text with the sign put back, or a ValueError
Signed(negative, cs) ==
    IF IsUnsigned(cs) THEN NumOk((IF negative THEN 0 - 1 ELSE 1) * Thousandths(cs))
    ELSE NumRaise(ValueError)

\* float(text) for the texts of the model: an optional sign, digits and an
\* optional point, or a ValueError
Float(cs) == Signed(Negative(cs), Unsigned(cs))

EndsWith(cs, suffix) ==
    Len(cs) >= Len(suffix) /\ SubSeq(cs, Len(cs) - Len(suffix) + 1, Len(cs)) = suffix

DropLast(cs, n) == SubSeq(cs, 1, Len(cs) - n)

\* str.strip() of a sequence of characters
RECURSIVE StripBlanks(_)
StripBlanks(cs) ==
    IF cs # <<>> /\ cs[1] = " " THEN StripBlanks(Tail(cs))
    ELSE IF cs # <<>> /\ cs[Len(cs)] = " " THEN StripBlanks(DropLast(cs, 1))
    ELSE cs

\* lines 31-33 with every multiplier a power of ten: Ki as 10**3, Mi as 10**6
binary_suffixes_Decimal ==
    << <<<<"K", "i">>, <<10, 3>>>>, <<<<"M", "i">>, <<10, 6>>>>, <<<<"G", "i">>, <<10, 9>>>>,
       <<<<"T", "i">>, <<10, 12>>>>, <<<<"P", "i">>, <<10, 15>>>>, <<<<"E", "i">>, <<10, 18>>>> >>

\* lines 31-33 and 39-41, in dictionary order; a multiplier base ** exponent
\* is the pair <<base, exponent>>
binary_suffixes ==
    << <<<<"K", "i">>, <<2, 10>>>>, <<<<"M", "i">>, <<2, 20>>>>, <<<<"G", "i">>, <<2, 30>>>>,
       <<<<"T", "i">>, <<2, 40>>>>, <<<<"P", "i">>, <<2, 50>>>>, <<<<"E", "i">>, <<2, 60>>>> >>

decimal_suffixes ==
    << <<<<"k">>, <<10, 3>>>>, <<<<"M">>, <<10, 6>>>>, <<<<"G">>, <<10, 9>>>>,
       <<<<"T">>, <<10, 12>>>>, <<<<"P">>, <<10, 15>>>>, <<<<"E">>, <<10, 18>>>> >>

\* a float too large for the integers of the model is kept as the product
\* num * base ** exponent, num in thousandths; division by 1000.0 is the
\* exponent -3 of ten
Product(num, mul) == [num |-> num, mul |-> mul]

\* float(value[:-len(suffix)]) * multiplier
Scaled(r, mul) == IF r.ok THEN NumOk(Product(r.val, mul)) ELSE r

\* float(value[:-1]) / 1000.0
Milli(r) == IF r.ok THEN NumOk(Product(r.val, <<10, 0 - 3>>)) ELSE r

\* the first suffix of the table that ends the text, 0 when none does
FirstSuffix(cs, table) ==
    IF \E i \in 1..Len(table) : EndsWith(cs, table[i][1])
    THEN CHOOSE i \in 1..Len(table) :
            /\ EndsWith(cs, table[i][1])
            /\ \A j \in 1..(i - 1) : ~EndsWith(cs, table[j][1])
    ELSE 0

\* lines 47-50: the ValueError of float is caught and gives 0.0
Caught(r) == IF r.ok THEN Scaled(r, <<10, 0>>) ELSE NumOk(Product(0, <<10, 0>>))

ParsePlain(value) == Caught(Float(value))

\* lines 34-36 and 42-44: with the suffix i of the table the number before it
\* times the multiplier is returned, with none the text goes on to otherwise
WithSuffix(value, table, i, otherwise) ==
    IF i # 0 THEN Scaled(Float(DropLast(value, Len(table[i][1]))), table[i][2])
    ELSE otherwise

\* lines 24-50 for the stripped text, the result as a product
ParseStripped(value) ==
    IF value = <<>> THEN NumOk(Product(0, <<10, 0>>))
    ELSE IF EndsWith(value, <<"m">>) THEN Milli(Float(DropLast(value, 1)))
    ELSE WithSuffix(value, binary_suffixes, FirstSuffix(value, binary_suffixes),
            WithSuffix(value, decimal_suffixes, FirstSuffix(value, decimal_suffixes),
                ParsePlain(value)))

\* lines 23-50, the result as a product
ParseQuantity(text) == ParseStripped(StripBlanks(text))

\* the product as a number in thousandths, for the quantities small enough
Evaluate(p) ==
    IF p.mul[2] >= 0 THEN p.num * (p.mul[1] ^ p.mul[2])
    ELSE p.num \div (p.mul[1] ^ (0 - p.mul[2]))

\* lines 18-50, as the report builders use it
parse_quantity(value) ==
    LET r == ParseQuantity(value) IN
    IF r.ok THEN NumOk(Evaluate(r.val)) ELSE r

----------------------------------------------------------------------------
(* utils/formatting.py: format_bytes, format_cpu *)

\* A size is m * 1024 ** e with m an integer: division by 1024 is exact in
\* binary floating point, and it lowers e by one.
Size(m, e) == [m |-> m, e |-> e]

\* n > 1024
ExceedsPower(n) ==
    IF n.m <= 0 THEN FALSE
    ELSE IF n.e >= 2 THEN TRUE
    ELSE IF n.e = 1 THEN n.m > 1
    ELSE n.m > 1024 ^ (1 - n.e)

\* line 13 with the test of count left out
LoopTest_Unbounded(n, count) == ExceedsPower(n)

\* line 13: the test of the while loop
LoopTest(n, count) == ExceedsPower(n) /\ count < 4

\* line 5
power_labels == [c \in 0..4 |-> <<"", "Ki", "Mi", "Gi", "Ti">>[c + 1]]

\* line 16: power_labels.get(count, 'Ti')
PowerLabel(count) == IF count \in DOMAIN power_labels THEN power_labels[count] ELSE "Ti"

\* a / b rounded to the nearest integer, a tie to the even one, b > 0
RoundHalfEven(a, b) ==
    LET q == a \div b
        r == a % b
    IN IF 2 * r > b THEN q + 1
       ELSE IF 2 * r < b THEN q
       ELSE IF q % 2 = 0 THEN q ELSE q + 1

\* a rendered number: digits * 1024 ** exp / 10 ** decimals, then the suffix
Rendered(digits, exp, decimals, suffix) ==
    [digits |-> digits, exp |-> exp, decimals |-> decimals, suffix |-> suffix]

\* line 16: f"{n:.2f}{label}"
RenderBytes(n, count) ==
    IF n.e >= 0 THEN Rendered(n.m * 100, n.e, 2, PowerLabel(count))
    ELSE Rendered(RoundHalfEven(n.m * 100, 1024 ^ (0 - n.e)), 0, 2, PowerLabel(count))

\* lines 13-15 run to their end from n and count
RECURSIVE FormatBytesLoop(_, _)
FormatBytesLoop(n, count) ==
    IF LoopTest(n, count) THEN FormatBytesLoop([m |-> n.m, e |-> n.e - 1], count + 1)
    ELSE [n |-> n, count |-> count]

\* lines 1-16
format_bytes(size) ==
    LET end == FormatBytesLoop(size, 0) IN RenderBytes(end.n, end.count)

\* int(x) of x = a / b: truncation toward zero
Trunc(a, b) == IF a >= 0 THEN a \div b ELSE 0 - ((0 - a) \div b)

\* line 54 with the boundary moved to the other branch
BelowOne_Inclusive(cores) == cores <= 1000000

\* line 54: cores < 1.0, cores in millionths
BelowOne(cores) == cores < 1000000

\* lines 52-56
format_cpu(cores) ==
    IF BelowOne(cores) THEN Rendered(Trunc(cores, 1000), 0, 0, "m")
    ELSE Rendered(RoundHalfEven(cores, 10000), 0, 2, "")

----------------------------------------------------------------------------
(* The formatting functions, each called on one input *)

\* number texts and junk that start a quantity text
NumberTexts == {<<"0">>, <<"1">>, <<"2">>, <<"5", "0", "0">>, <<"1", ".", "5">>,
                <<"0", ".", "2", "5">>, <<"-", "1">>}

JunkTexts == {<<>>, <<"x">>, <<"a", "b", "c">>, <<"1", "x">>}

\* the suffixes parse_quantity knows, and others
KnownSuffixes ==
    {<<"m">>}
    \cup {binary_suffixes[i][1] : i \in 1..Len(binary_suffixes)}
    \cup {decimal_suffixes[i][1] : i \in 1..Len(decimal_suffixes)}

OtherSuffixes == {<<>>, <<"n">>, <<"X", "i">>, <<" ">>}

QuantityTexts ==
    {prefix \o suffix : prefix \in NumberTexts \cup JunkTexts,
                        suffix \in KnownSuffixes \cup OtherSuffixes}
    \cup {<<" ">> \o prefix \o <<"G", "i", " ">> : prefix \in NumberTexts}

Sizes == {Size(m, e) : m \in {0 - 2048, 0, 1, 500, 1023, 1024, 1025, 2048}, e \in 0..MaxSizeExp}

\* cores in millionths; the ties of the second decimal are binary fractions
CoreValues == {0 - 1500000, 0 - 500, 0, 1, 999, 1000, 1500, 250000, 999999,
               1000000, 1125000, 1500000, 2375000, 64000000}

FmtInputs(fn) ==
    CASE fn = "parse_quantity" -> QuantityTexts
      [] fn = "format_bytes" -> Sizes
      [] fn = "format_cpu" -> CoreValues

InitFmt ==
    /\ fmt_pc = "ready"
    /\ fmt_fn \in {"parse_quantity", "format_bytes", "format_cpu"}
    /\ fmt_value \in FmtInputs(fmt_fn)
    /\ fmt_n = Size(0, 0)
    /\ fmt_count = 0
    /\ fmt_out = Ok(None)
    /\ OcParked
    /\ PromParked
    /\ ToolsParked

CallParseQuantity ==
    /\ fmt_pc = "ready" /\ fmt_fn = "parse_quantity"
    /\ fmt_out' = ParseQuantity(fmt_value)
    /\ fmt_pc' = "returned"
    /\ UNCHANGED <<fmt_fn, fmt_value, fmt_n, fmt_count, ocVars, promVars, toolVars>>

CallFormatCpu ==
    /\ fmt_pc = "ready" /\ fmt_fn = "format_cpu"
    /\ fmt_out' = Ok(format_cpu(fmt_value))
    /\ fmt_pc' = "returned"
    /\ UNCHANGED <<fmt_fn, fmt_value, fmt_n, fmt_count, ocVars, promVars, toolVars>>

\* format_bytes lines 3-6
FormatBytesEnter ==
    /\ fmt_pc = "ready" /\ fmt_fn = "format_bytes"
    /\ fmt_n' = fmt_value
    /\ fmt_count' = 0
    /\ fmt_pc' = "loop"
    /\ UNCHANGED <<fmt_fn, fmt_value, fmt_out, ocVars, promVars, toolVars>>

\* format_bytes lines 13-15: one turn of the loop
FormatBytesDivide ==
    /\ fmt_pc = "loop"
    /\ LoopTest(fmt_n, fmt_count)
    /\ fmt_n' = Size(fmt_n.m, fmt_n.e - 1)
    /\ fmt_count' = fmt_count + 1
    /\ UNCHANGED <<fmt_pc, fmt_fn, fmt_value, fmt_out, ocVars, promVars, toolVars>>

\* format_bytes line 16
FormatBytesReturn ==
    /\ fmt_pc = "loop"
    /\ ~LoopTest(fmt_n, fmt_count)
    /\ fmt_out' = Ok(RenderBytes(fmt_n, fmt_count))
    /\ fmt_pc' = "returned"
    /\ UNCHANGED <<fmt_fn, fmt_value, fmt_n, fmt_count, ocVars, promVars, toolVars>>

NextFmt ==
    \/ CallParseQuantity
    \/ CallFormatCpu
    \/ FormatBytesEnter
    \/ FormatBytesDivide
    \/ FormatBytesReturn

SpecFmt == InitFmt /\ [][NextFmt]_vars

----------------------------------------------------------------------------
(* Claims about utils/formatting.py *)

FmtReturned(fn) == fmt_fn = fn /\ fmt_pc = "returned"

\* C12: parse_quantity is total: for every text, a known suffix after a prefix
\* that is empty or no number included, it returns a number and never raises;
\* a text that is no quantity gives 0.0.
C12_ParseQuantityTotal ==
    FmtReturned("parse_quantity") =>
        /\ fmt_out.ok
        /\ (\A prefix \in NumberTexts, suffix \in KnownSuffixes \cup {<<>>} :
                StripBlanks(fmt_value) # prefix \o suffix)
              => fmt_out.val.num = 0

\* the number a number text stands for, in thousandths
NumberValue(text) ==
    CASE text = <<"0">> -> 0
      [] text = <<"1">> -> 1000
      [] text = <<"2">> -> 2000
      [] text = <<"5", "0", "0">> -> 500000
      [] text = <<"1", ".", "5">> -> 1500
      [] text = <<"0", ".", "2", "5">> -> 250
      [] text = <<"-", "1">> -> 0 - 1000

\* the factor each suffix stands for: a power of 1024, or a power of 1000
ReferenceFactor(suffix) ==
    CASE suffix = <<>> -> <<1000, 0>>
      [] suffix = <<"m">> -> <<1000, 0 - 1>>
      [] suffix = <<"K", "i">> -> <<1024, 1>>
      [] suffix = <<"M", "i">> -> <<1024, 2>>
      [] suffix = <<"G", "i">> -> <<1024, 3>>
      [] suffix = <<"T", "i">> -> <<1024, 4>>
      [] suffix = <<"P", "i">> -> <<1024, 5>>
      [] suffix = <<"E", "i">> -> <<1024, 6>>
      [] suffix = <<"k">> -> <<1000, 1>>
      [] suffix = <<"M">> -> <<1000, 2>>
      [] suffix = <<"G">> -> <<1000, 3>>
      [] suffix = <<"T">> -> <<1000, 4>>
      [] suffix = <<"P">> -> <<1000, 5>>
      [] suffix = <<"E">> -> <<1000, 6>>

\* base ** exponent as the exponents of its prime factors 2 and 5
PrimeExponents(mul) ==
    CASE mul[1] = 2 -> [two |-> mul[2], five |-> 0]
      [] mul[1] = 10 -> [two |-> mul[2], five |-> mul[2]]
      [] mul[1] = 1024 -> [two |-> 10 * mul[2], five |-> 0]
      [] mul[1] = 1000 -> [two |-> 3 * mul[2], five |-> 3 * mul[2]]

\* two products are the same number
SameNumber(p, q) ==
    \/ p.num = 0 /\ q.num = 0
    \/ p.num = q.num /\ PrimeExponents(p.mul) = PrimeExponents(q.mul)

\* C13: for every well-formed quantity parse_quantity returns the reference
\* value: a trailing m divides the number by 1000, Ki..Ei multiply by the
\* powers of 1024, k..E by the powers of 1000, no suffix gives the number,
\* and the empty text gives 0.
C13_ReferenceValue ==
    FmtReturned("parse_quantity") =>
        /\ \A prefix \in NumberTexts, suffix \in KnownSuffixes \cup {<<>>} :
              StripBlanks(fmt_value) = prefix \o suffix
                 => /\ fmt_out.ok
                    /\ SameNumber(fmt_out.val,
                                  Product(NumberValue(prefix), ReferenceFactor(suffix)))
        /\ StripBlanks(fmt_value) = <<>> => (fmt_out.ok /\ fmt_out.val.num = 0)

C13_Witness ==
    /\ FmtReturned("parse_quantity")
    /\ fmt_value = <<"2", "G", "i">>
    /\ fmt_out = NumOk(Product(2000, <<2, 30>>))

\* the label of the claim for a number of divisions
ClaimedLabel(count) ==
    CASE count = 0 -> "" [] count = 1 -> "Ki" [] count = 2 -> "Mi"
      [] count = 3 -> "Gi" [] count = 4 -> "Ti" [] OTHER -> "Pi"

\* format_bytes divides while n exceeds 1024 and fewer than 4 divisions are
\* done, and every division is one more of at most 4
DividesWhileLarge ==
    [][(fmt_fn = "format_bytes" /\ fmt_pc = "loop")
         => /\ (ExceedsPower(fmt_n) /\ fmt_count < 4)
                 => /\ fmt_pc' = "loop"
                    /\ fmt_count' = fmt_count + 1
                    /\ fmt_n' = Size(fmt_n.m, fmt_n.e - 1)
            /\ ~(ExceedsPower(fmt_n) /\ fmt_count < 4) => fmt_pc' = "returned"]_vars

\* C14, as the claim states it: at most 4 divisions, the label is the one of
\* the division count among none, Ki, Mi, Gi and Ti, and a size that is still
\* above 1024 after the last division takes the overflow label Pi.
C14_OverflowLabelPi ==
    FmtReturned("format_bytes") =>
        /\ fmt_count <= 4
        /\ fmt_out.val.suffix = IF ExceedsPower(fmt_n) THEN "Pi" ELSE ClaimedLabel(fmt_count)

\* C14, amended: format_bytes divides while n exceeds 1024 and fewer than 4
\* divisions are done, so at most 4 times, each turn of the loop adding one to
\* the count; the label is the one of the division count among none, Ki, Mi,
\* Gi and Ti, and a size still above 1024 after 4 divisions keeps Ti.
C14_LabelOfCount ==
    /\ [](fmt_count <= 4)
    /\ [](FmtReturned("format_bytes")
            => /\ fmt_count \in 0..4
               /\ fmt_out.val.suffix = ClaimedLabel(fmt_count)
               /\ ExceedsPower(fmt_n) => fmt_out.val.suffix = "Ti")
    /\ DividesWhileLarge

C14_Witness ==
    /\ FmtReturned("format_bytes")
    /\ fmt_count = 4
    /\ ExceedsPower(fmt_n)
    /\ fmt_out.val.suffix = "Ti"

\* a <= b for two sizes whose m is below 1024 ** 2 in magnitude
SizeLessEq(a, b) ==
    IF a.e - b.e >= 2 THEN (IF a.m = 0 THEN 0 <= b.m ELSE a.m < 0)
    ELSE IF b.e - a.e >= 2 THEN (IF b.m = 0 THEN a.m <= 0 ELSE b.m > 0)
    ELSE IF a.e >= b.e THEN a.m * (1024 ^ (a.e - b.e)) <= b.m
    ELSE a.m <= b.m * (1024 ^ (b.e - a.e))

LabelRank(label) ==
    CASE label = "" -> 0 [] label = "Ki" -> 1 [] label = "Mi" -> 2
      [] label = "Gi" -> 3 [] label = "Ti" -> 4 [] label = "Pi" -> 5

\* C15: a larger size never gets a smaller binary prefix than a smaller size,
\* format_bytes(2**10 * 2**10) contains Mi, and format_bytes(500) has no suffix.
C15_MonotonicLabels ==
    FmtReturned("format_bytes") =>
        /\ \A a \in Sizes :
              SizeLessEq(a, fmt_value)
                 => LabelRank(format_bytes(a).suffix) <= LabelRank(fmt_out.val.suffix)
        /\ SizeLessEq(Size(1, 2), fmt_value) /\ SizeLessEq(fmt_value, Size(1, 2))
              => fmt_out.val.suffix = "Mi"
        /\ fmt_value = Size(500, 0) => fmt_out.val.suffix = ""

\* C16: format_cpu renders a value below 1.0 as the integer of its milli-cores,
\* the value times 1000 cut toward zero, followed by m, and a value of 1.0 or
\* more with two decimals and no suffix.
C16_FormatCpu ==
    FmtReturned("format_cpu") =>
        LET d == fmt_out.val.digits IN
        IF fmt_value < 1000000
        THEN /\ fmt_out.val.suffix = "m"
             /\ fmt_out.val.decimals = 0
             /\ fmt_value >= 0 => (d >= 0 /\ d * 1000 <= fmt_value /\ fmt_value < (d + 1) * 1000)
             /\ fmt_value < 0 => (d <= 0 /\ (d - 1) * 1000 < fmt_value /\ fmt_value <= d * 1000)
        ELSE /\ fmt_out.val.suffix = ""
             /\ fmt_out.val.decimals = 2
             /\ d * 10000 - fmt_value <= 5000
             /\ fmt_value - d * 10000 <= 5000

C16_Witness ==
    \/ /\ FmtReturned("format_cpu")
       /\ fmt_value = 999999
       /\ fmt_out.val = Rendered(999, 0, 0, "m")
    \/ /\ FmtReturned("format_cpu")
       /\ fmt_value = 1000000
       /\ fmt_out.val = Rendered(100, 0, 2, "")

----------------------------------------------------------------------------
(* The documents the cluster returns to the report builders *)

\* one node of `oc get nodes -o json`; keys is false for an item that lacks
\* the key metadata
NodeItem(name, cpu, mem, pods) ==
    [keys |-> TRUE, name |-> name, cpu |-> cpu, mem |-> mem, pods |-> pods]

NodeN1 == NodeItem("n1", <<"1">>, <<"2", "K", "i">>, <<"1", "0">>)
NodeN2 == NodeItem("n2", <<"2">>, <<"4", "K", "i">>, <<"1", "0">>)

\* nodes_json.get("items", []) of each text
NodeItems(doc) ==
    CASE doc = "nodes[n2,n1]" -> <<NodeN2, NodeN1>>
      [] doc = "nodes[n1]" -> <<NodeN1>>
      [] doc = "nodes[item without metadata]" -> <<NodeN2, [NodeN1 EXCEPT !.keys = FALSE]>>
      [] doc = "nodes[n1 cpu=xm]" -> <<[NodeN1 EXCEPT !.cpu = <<"x", "m">>]>>
      [] OTHER -> <<>>

\* a JSON text whose top level is an array: it has no .get
IsJsonList(doc) == doc = "[]"

\* one pod of `oc get pods --all-namespaces -o json`; containers holds the
\* resources.requests of each container
PodItem(nodeName, phase, containers) ==
    [nodeName |-> nodeName, phase |-> phase, containers |-> containers]

Requests(cpu, mem) == [cpu |-> cpu, mem |-> mem]

PodA == PodItem("n1", "Running", <<Requests(<<"8", "5", "0", "m">>, <<"1", "K", "i">>)>>)
PodB == PodItem("n1", "Succeeded", <<Requests(<<"1">>, <<"1", "K", "i">>)>>)
PodC == PodItem("n3", "Running", <<Requests(<<"1">>, <<"1", "K", "i">>)>>)
PodD == PodItem(None, "Pending", <<Requests(<<"1">>, <<"1", "K", "i">>)>>)
PodE == PodItem("n1", "Pending", <<Requests(<<"5", "0", "m">>, <<"0">>),
                                   Requests(<<"5", "0", "m">>, <<"0">>)>>)

PodItems(doc) ==
    CASE doc = "pods[a@n1]" -> <<PodA>>
      [] doc = "pods[a@n1,b@n1 Succeeded,c@n3,d unscheduled,e@n1]"
            -> <<PodA, PodB, PodC, PodD, PodE>>
      [] OTHER -> <<>>

\* the texts `oc adm top nodes --no-headers` writes in the model
UsageTexts == {"", "\n", "n1 100m 10% 1Ki 50%\nn2 1 50% 1Ki 25%", "n1 100m"}

\* usage_output.strip().splitlines(), each line split at blanks
UsageLines(text) ==
    CASE text = "n1 100m 10% 1Ki 50%\nn2 1 50% 1Ki 25%"
            -> << <<"n1", <<"1", "0", "0", "m">>, "10%", <<"1", "K", "i">>, "50%">>,
                  <<"n2", <<"1">>, "50%", <<"1", "K", "i">>, "25%">> >>
      [] text = "n1 100m" -> << <<"n1", <<"1", "0", "0", "m">>>> >>
      [] OTHER -> <<>>

\* the child processes of the three fetches
FetchProcs(texts) ==
    {[launch |-> "started", returncode |-> 0, stdout |-> o, stderr |-> ""] :
        o \in texts \cup {"not json"}}
    \cup {[launch |-> "started", returncode |-> 1, stdout |-> "", stderr |-> "error: forbidden"]}

UsageProcs ==
    {[launch |-> "started", returncode |-> 0, stdout |-> o, stderr |-> ""] : o \in UsageTexts}
    \cup {[launch |-> "started", returncode |-> 1, stdout |-> "",
           stderr |-> "error: Metrics API not available"]}

----------------------------------------------------------------------------
(* tools/resources.py: get_cluster_resource_balance *)

\* a line of a report
Line(kind) == [kind |-> kind, node |-> None, cells |-> <<>>, n |-> 0]

KeyError == [exc |-> "KeyError", msg |-> <<"'metadata'">>]
AttributeError == [exc |-> "AttributeError", msg |-> <<"'list' object has no attribute 'get'">>]

RECURSIVE SumSeq(_)
SumSeq(ns) == IF ns = <<>> THEN 0 ELSE Head(ns) + SumSeq(Tail(ns))

RECURSIVE Flatten(_)
Flatten(ss) == IF ss = <<>> THEN <<>> ELSE Head(ss) \o Flatten(Tail(ss))

\* the names of a sequence of items in order of first occurrence: the key
\* order of the dictionary node_stats
RECURSIVE KeyOrder(_)
KeyOrder(items) ==
    IF items = <<>> THEN <<>>
    ELSE LET rest == KeyOrder(SubSeq(items, 1, Len(items) - 1))
             name == items[Len(items)].name
         IN IF InSeq(name, rest) THEN rest ELSE Append(rest, name)

\* lines 47-59: the first exception the loop over the nodes raises
NodeItemError(item) ==
    IF ~item.keys THEN KeyError
    ELSE IF \/ ~parse_quantity(item.cpu).ok
            \/ ~parse_quantity(item.mem).ok
            \/ ~parse_quantity(item.pods).ok
    THEN ValueError
    ELSE NoErr

NodeStatsError(items) ==
    IF \A i \in 1..Len(items) : NodeItemError(items[i]) = NoErr THEN NoErr
    ELSE NodeItemError(items[CHOOSE i \in 1..Len(items) :
                                /\ NodeItemError(items[i]) # NoErr
                                /\ \A j \in 1..(i - 1) : NodeItemError(items[j]) = NoErr])

\* lines 44-59: node_stats after the loop over the nodes
NodeCapacity(items) ==
    [name \in {items[i].name : i \in 1..Len(items)} |->
        LET i == CHOOSE k \in 1..Len(items) :
                    /\ items[k].name = name
                    /\ \A j \in (k + 1)..Len(items) : items[j].name # name
        IN [cpu_cap |-> parse_quantity(items[i].cpu).val,
            mem_cap |-> parse_quantity(items[i].mem).val,
            pod_cap |-> parse_quantity(items[i].pods).val]]

\* lines 72-75 without the test of the phase
Counted_AllPhases(pods, name) ==
    SelectSeq(pods, LAMBDA pod : Truthy(pod.nodeName) /\ pod.nodeName = name)

\* lines 72-75: the pods that count for a node of node_stats
Counted(pods, name) ==
    SelectSeq(pods, LAMBDA pod :
        /\ pod.phase \notin {"Succeeded", "Failed"}
        /\ Truthy(pod.nodeName)
        /\ pod.nodeName = name)

AllContainers(pods) == Flatten([i \in 1..Len(pods) |-> pods[i].containers])

\* lines 78-81: the first exception the loop over the pods raises
PodRequestsError(pods, names) ==
    IF \E i \in 1..Len(pods) :
          /\ pods[i].phase \notin {"Succeeded", "Failed"}
          /\ Truthy(pods[i].nodeName) /\ pods[i].nodeName \in names
          /\ \E k \in 1..Len(pods[i].containers) :
                \/ ~parse_quantity(pods[i].containers[k].cpu).ok
                \/ ~parse_quantity(pods[i].containers[k].mem).ok
    THEN ValueError
    ELSE NoErr

\* lines 62-83: the requests summed per node; nothing when the pod list failed
NodeRequests(pods, name) ==
    LET cs == AllContainers(Counted(pods, name)) IN
    [pod_count |-> Len(Counted(pods, name)),
     cpu_req |-> SumSeq([k \in 1..Len(cs) |-> parse_quantity(cs[k].cpu).val]),
     mem_req |-> SumSeq([k \in 1..Len(cs) |-> parse_quantity(cs[k].mem).val])]

\* line 87
MetricsAvailable(usage_r) == usage_r.ok /\ Truthy(usage_r.val)

\* lines 89-99: the usage of a node is taken from the last line that names it
\* and has five parts or more
NodeUsage(lines, name) ==
    LET hits == SelectSeq(lines, LAMBDA parts : Len(parts) >= 5 /\ parts[1] = name) IN
    IF hits = <<>> THEN [cpu_used |-> 0, mem_used |-> 0]
    ELSE [cpu_used |-> parse_quantity(hits[Len(hits)][2]).val,
          mem_used |-> parse_quantity(hits[Len(hits)][4]).val]

UsageError(lines, names) ==
    IF \E i \in 1..Len(lines) :
          /\ Len(lines[i]) >= 5 /\ lines[i][1] \in names
          /\ (~parse_quantity(lines[i][2]).ok \/ ~parse_quantity(lines[i][4]).ok)
    THEN ValueError
    ELSE NoErr

\* stats[...] or 1.0, in thousandths
OrOne(cap) == IF cap = 0 THEN 1000 ELSE cap

\* lines 122-125: highlight(val) of val = part / whole * 100, boundary 85
Highlight(part, whole) ==
    [part |-> part, whole |-> whole, bold |-> part * 100 >= 85 * whole, dash |-> FALSE]

Dash == [part |-> 0, whole |-> 1, bold |-> FALSE, dash |-> TRUE]

\* the position of a node name in sorted order
NameRank(name) ==
    CASE name = "n1" -> 1 [] name = "n2" -> 2 [] name = "n3" -> 3 [] OTHER -> 4

\* sorted(node_stats.items()): the names in ascending order
RECURSIVE SortedNames(_)
SortedNames(names) ==
    IF names = {} THEN <<>>
    ELSE LET least == CHOOSE n \in names : \A m \in names : NameRank(n) <= NameRank(m)
         IN <<least>> \o SortedNames(names \ {least})

\* lines 111-135: the row of one node
BalanceRow(name, cap, req, used, metrics_available) ==
    [kind |-> "row", node |-> name, n |-> 0,
     cells |-> [cpu_req |-> Highlight(req.cpu_req, OrOne(cap.cpu_cap)),
                cpu_used |-> IF metrics_available
                             THEN Highlight(used.cpu_used, OrOne(cap.cpu_cap)) ELSE Dash,
                mem_req |-> Highlight(req.mem_req, OrOne(cap.mem_cap)),
                mem_used |-> IF metrics_available
                             THEN Highlight(used.mem_used, OrOne(cap.mem_cap)) ELSE Dash,
                pod_count |-> req.pod_count,
                pod_cap |-> cap.pod_cap \div 1000]]

\* lines 43-152: the report built from the three results of gather, or the
\* exception the body of the try block raises
BalanceBody(nodes_r, pods_r, usage_r) ==
    IF ~nodes_r.ok THEN [ok |-> FALSE, lines |-> <<>>, err |-> nodes_r.err]
    ELSE IF IsJsonList(nodes_r.val) THEN [ok |-> FALSE, lines |-> <<>>, err |-> AttributeError]
    ELSE
    LET items == NodeItems(nodes_r.val)
        names == {items[i].name : i \in 1..Len(items)}
        pods == IF pods_r.ok THEN PodItems(pods_r.val) ELSE <<>>
        metrics_available == MetricsAvailable(usage_r)
        usage == IF metrics_available THEN UsageLines(usage_r.val) ELSE <<>>
        cap == NodeCapacity(items)
        req == [name \in names |-> NodeRequests(pods, name)]
        used == [name \in names |-> NodeUsage(usage, name)]
        order == SortedNames(names)
        keys == KeyOrder(items)
        full_req_nodes ==
            SelectSeq(keys, LAMBDA name :
                \/ req[name].cpu_req * 100 > 85 * OrOne(cap[name].cpu_cap)
                \/ req[name].mem_req * 100 > 85 * OrOne(cap[name].mem_cap))
        fragmented ==
            SelectSeq(full_req_nodes, LAMBDA name :
                /\ metrics_available
                /\ (req[name].cpu_req - used[name].cpu_used) * 100
                      > 50 * OrOne(cap[name].cpu_cap))
    IN
    IF NodeStatsError(items) # NoErr
    THEN [ok |-> FALSE, lines |-> <<>>, err |-> NodeStatsError(items)]
    ELSE IF pods_r.ok /\ IsJsonList(pods_r.val)
    THEN [ok |-> FALSE, lines |-> <<>>, err |-> AttributeError]
    ELSE IF PodRequestsError(pods, names) # NoErr
    THEN [ok |-> FALSE, lines |-> <<>>, err |-> PodRequestsError(pods, names)]
    ELSE IF UsageError(usage, names) # NoErr
    THEN [ok |-> FALSE, lines |-> <<>>, err |-> UsageError(usage, names)]
    ELSE
    [ok |-> TRUE, err |-> NoErr,
     lines |->
        <<Line("title")>>
        \o (IF metrics_available THEN <<>> ELSE <<Line("metrics_unavailable")>>)
        \o <<Line("table_header"), Line("table_rule")>>
        \o [i \in 1..Len(order) |->
               BalanceRow(order[i], cap[order[i]], req[order[i]], used[order[i]],
                          metrics_available)]
        \o <<Line("blank")>>
        \o (IF full_req_nodes = <<>> THEN <<>>
            ELSE <<Line("insights_header"),
                   [Line("scheduling_pressure") EXCEPT !.n = Len(full_req_nodes)]>>
                 \o [i \in 1..Len(fragmented) |->
                        [Line("fragmentation") EXCEPT !.node = fragmented[i]]])]

\* the line of an error string f"<prefix>: {e}"
ErrorLine(prefix, e) == [Line("error") EXCEPT !.node = prefix, !.cells = StrOf(e)]

\* lines 20-155: `except Exception` turns every exception of the body into
\* the error string
BalanceReport(nodes_r, pods_r, usage_r) ==
    LET b == BalanceBody(nodes_r, pods_r, usage_r) IN
    IF b.ok THEN [raised |-> FALSE, err |-> NoErr, lines |-> b.lines]
    ELSE [raised |-> FALSE, err |-> NoErr,
          lines |-> <<ErrorLine("Error calculating cluster resource balance", b.err)>>]

----------------------------------------------------------------------------
(* tools/storage.py: get_cluster_storage_report, analyze_node_storage *)

StatsProcs ==
    {[launch |-> "started", returncode |-> 0, stdout |-> o, stderr |-> ""] :
        o \in StatsTexts \cup {"not json"}}
    \cup {[launch |-> "started", returncode |-> 1, stdout |-> "", stderr |-> "error: forbidden"]}

\* lines 143-192: what analyze_node_storage returns or raises for the result
\* of get_node_stats_summary: an OCError becomes the error text, a summary
\* that is no dictionary raises at stats.get
analyze_node_storage(node_name, stats_r) ==
    IF ~stats_r.ok
    THEN [raised |-> FALSE, err |-> NoErr,
          lines |-> <<[ErrorLine("Error fetching stats for node", stats_r.err)
                          EXCEPT !.kind = "node_error", !.node = node_name]>>]
    ELSE IF IsJsonList(stats_r.val)
    THEN [raised |-> TRUE, err |-> AttributeError, lines |-> <<>>]
    ELSE [raised |-> FALSE, err |-> NoErr,
          lines |-> <<[Line("node_section") EXCEPT !.node = node_name,
                                                   !.cells = <<stats_r.val>>]>>]

\* lines 207-215: the start of the report and the names to visit, or the
\* outcome that ends the tool when the node list cannot be used
StorageListing(nodes_r) ==
    IF ~nodes_r.ok
    THEN [done |-> TRUE, raised |-> FALSE, err |-> NoErr, names |-> <<>>,
          lines |-> <<ErrorLine("Error listing nodes", nodes_r.err)>>]
    ELSE IF IsJsonList(nodes_r.val)
    THEN [done |-> TRUE, raised |-> TRUE, err |-> AttributeError, names |-> <<>>, lines |-> <<>>]
    ELSE IF \E i \in 1..Len(NodeItems(nodes_r.val)) : ~NodeItems(nodes_r.val)[i].keys
    THEN [done |-> TRUE, raised |-> TRUE, err |-> KeyError, names |-> <<>>, lines |-> <<>>]
    ELSE LET items == NodeItems(nodes_r.val) IN
         [done |-> FALSE, raised |-> FALSE, err |-> NoErr,
          names |-> [i \in 1..Len(items) |-> items[i].name],
          lines |-> <<[Line("storage_title") EXCEPT !.n = Len(items)]>>]

----------------------------------------------------------------------------
(* tools/monitoring.py: detect_pod_restarts_anomalies *)

Sample(namespace, pod, value) == [namespace |-> namespace, pod |-> pod, value |-> value]

\* result.get("status") of each envelope
EnvelopeStatus(doc) ==
    CASE doc = "{status: error}" -> "error"
      [] OTHER -> "success"

\* result.get("data", {}).get("result", []) of each envelope
EnvelopeResult(doc) ==
    CASE doc = "{status: success, result: [a=7, b=12, c=7]}"
            -> <<Sample("ns", "a", <<"7">>), Sample("ns", "b", <<"1", "2">>),
                 Sample("ns", "c", <<"7">>)>>
      [] doc = "{status: success, result: [a=x]}" -> <<Sample("ns", "a", <<"x">>)>>
      [] OTHER -> <<>>

\* what a query_prometheus call can return or raise: the outcomes of the proxy
\* request and the outcome of the route request
QueryOutcomes ==
    {ProxyResult(run_oc_command(p)) : p \in ProxyProcs}
    \cup {QueryViaRouteTail(run_command(NoCmd))}

\* list.sort(key=..., reverse=True): stable, largest value first
RECURSIVE SortByValueDesc(_)
SortByValueDesc(samples) ==
    IF samples = <<>> THEN <<>>
    ELSE LET top == CHOOSE i \in 1..Len(samples) :
                        /\ \A j \in 1..Len(samples) :
                              Float(samples[j].value).val <= Float(samples[i].value).val
                        /\ \A j \in 1..(i - 1) :
                              Float(samples[j].value).val < Float(samples[i].value).val
         IN <<samples[top]>>
            \o SortByValueDesc(SubSeq(samples, 1, top - 1)
                               \o SubSeq(samples, top + 1, Len(samples)))

\* lines 24-67: what the tool returns or raises for the outcome of the query;
\* only OCError is caught
RestartsReport(query_r) ==
    IF ~query_r.ok
    THEN IF query_r.err.exc = "OCError"
         THEN [raised |-> FALSE, err |-> NoErr,
               lines |-> <<ErrorLine("Error querying Prometheus", query_r.err),
                           Line("blank"), Line("monitoring_hint")>>]
         ELSE [raised |-> TRUE, err |-> query_r.err, lines |-> <<>>]
    ELSE IF IsJsonList(query_r.val)
    THEN [raised |-> TRUE, err |-> AttributeError, lines |-> <<>>]
    ELSE IF EnvelopeStatus(query_r.val) # "success"
    THEN [raised |-> FALSE, err |-> NoErr, lines |-> <<Line("query_failed_status")>>]
    ELSE LET results == EnvelopeResult(query_r.val) IN
         IF results = <<>>
         THEN [raised |-> FALSE, err |-> NoErr,
               lines |-> <<Line("title"), Line("no_restarts")>>]
         ELSE IF \E i \in 1..Len(results) : ~Float(results[i].value).ok
         THEN [raised |-> TRUE, err |-> ValueError, lines |-> <<>>]
         ELSE LET sorted == SortByValueDesc(results) IN
              [raised |-> FALSE, err |-> NoErr,
               lines |-> <<Line("title"), Line("table_header"), Line("table_rule")>>
                         \o [i \in 1..Len(sorted) |->
                                [Line("row") EXCEPT !.node = sorted[i].pod,
                                                    !.n = Float(sorted[i].value).val]]
                         \o <<Line("blank"), Line("recommendations_header"),
                              Line("recommendation"), Line("recommendation"),
                              Line("recommendation")>>]

----------------------------------------------------------------------------
(* tools/monitoring.py: get_gpu_utilization; tools/gpu.py: check_gpu_health *)

GpuSample(node, gpu, value) == [node |-> node, gpu |-> gpu, value |-> value]

\* result.get("data", {}).get("result", []) of each envelope of a GPU metric
GpuResult(doc) ==
    CASE doc = "{status: success, result: [n1/0=0]}" -> <<GpuSample("n1", "0", <<"0">>)>>
      [] doc = "{status: success, result: [n1/0=90]}"
            -> <<GpuSample("n1", "0", <<"9", "0">>)>>
      [] doc = "{status: success, result: [n1/0=95, n2/0=4]}"
            -> <<GpuSample("n1", "0", <<"9", "5">>), GpuSample("n2", "0", <<"4">>)>>
      [] OTHER -> <<>>

GpuProxyProcs ==
    {[launch |-> "started", returncode |-> 0, stdout |-> o, stderr |-> ""] :
        o \in GpuEnvelopeTexts}
    \cup {[launch |-> "started", returncode |-> 1, stdout |-> "", stderr |-> "error: forbidden"]}

\* what query_prometheus can return or raise for a GPU metric
GpuQueryOutcomes ==
    {ProxyResult(run_oc_command(p)) : p \in GpuProxyProcs}
    \cup {QueryViaRouteTail(run_command(NoCmd))}

\* monitoring.py lines 87-91 and gpu.py lines 53-58: the queries in the order
\* of the dictionary
UtilizationQueries == <<"utilization", "memory_used", "memory_free">>
HealthQueries == <<"xid_errors", "temp", "power", "throttle">>

\* monitoring.py lines 97-104, gpu.py lines 63-70 with results.get(name, []):
\* the samples of a metric, none when the status is not success or the query
\* raised OCError
MetricList(r) ==
    IF r.ok /\ EnvelopeStatus(r.val) = "success" THEN GpuResult(r.val) ELSE <<>>

\* the exception of a query that no handler of the tool takes
Escapes(r) == ~r.ok /\ r.err.exc # "OCError"

\* monitoring.py lines 119-150: the last value of a key in a list, 0 without
GpuValue(samples, key) ==
    LET hits == SelectSeq(samples, LAMBDA x : <<x.node, x.gpu>> = key) IN
    IF hits = <<>> THEN 0 ELSE Float(hits[Len(hits)].value).val

GpuKeys(samples) == {<<samples[i].node, samples[i].gpu>> : i \in 1..Len(samples)}

\* sorted(gpu_map.items()): the keys in ascending order
RECURSIVE SortedKeys(_)
SortedKeys(keys) ==
    IF keys = {} THEN <<>>
    ELSE LET least == CHOOSE k \in keys : \A m \in keys : NameRank(k[1]) <= NameRank(m[1])
         IN <<least>> \o SortedKeys(keys \ {least})

\* monitoring.py lines 167-190 with High at 90 and above
GpuRow_HighAt90(key, util, mem_used, mem_free) ==
    [kind |-> "row", node |-> key[1], n |-> 0,
     cells |-> [gpu |-> key[2],
                util |-> [shown |-> "number", val |-> util],
                mem |-> IF mem_used > 0 \/ mem_free > 0
                        THEN [shown |-> "number", val |-> mem_used]
                        ELSE [shown |-> "N/A", val |-> 0],
                mem_free |-> [shown |-> "number", val |-> mem_free],
                status |-> IF util = 0 THEN "Idle"
                           ELSE IF util >= 90000 THEN "High" ELSE "Active"]]

\* monitoring.py lines 167-190: the row of one GPU; util, mem_used and
\* mem_free are 0 when gpu_map has no value for them
GpuRow(key, util, mem_used, mem_free) ==
    [kind |-> "row", node |-> key[1], n |-> 0,
     cells |-> [gpu |-> key[2],
                util |-> [shown |-> "number", val |-> util],
                mem |-> IF mem_used > 0 \/ mem_free > 0
                        THEN [shown |-> "number", val |-> mem_used]
                        ELSE [shown |-> "N/A", val |-> 0],
                mem_free |-> [shown |-> "number", val |-> mem_free],
                status |-> IF util = 0 THEN "Idle"
                           ELSE IF util > 90000 THEN "High" ELSE "Active"]]

\* monitoring.py lines 106-212: the report for the samples of the three metrics
GpuUtilizationReport(util, used, free) ==
    IF util = <<>> /\ used = <<>> /\ free = <<>>
    THEN [raised |-> FALSE, err |-> NoErr,
          lines |-> <<Line("title"), Line("blank"), Line("no_gpu_metrics"), Line("blank"),
                      Line("possible_reasons"), Line("reason"), Line("reason"),
                      Line("reason"), Line("reason")>>]
    ELSE
    LET keys == SortedKeys(GpuKeys(util) \cup GpuKeys(used) \cup GpuKeys(free))
        rows == [i \in 1..Len(keys) |->
                    GpuRow(keys[i], GpuValue(util, keys[i]), GpuValue(used, keys[i]),
                           GpuValue(free, keys[i]))]
        idle == SelectSeq(rows, LAMBDA r : r.cells.status = "Idle")
        high == SelectSeq(rows, LAMBDA r : r.cells.status = "High")
    IN [raised |-> FALSE, err |-> NoErr,
        lines |-> <<Line("title"), [Line("total_gpus") EXCEPT !.n = Len(keys)],
                    Line("table_header"), Line("table_rule")>>
                  \o rows
                  \o <<Line("blank")>>
                  \o (IF idle = <<>> /\ high = <<>> THEN <<Line("all_normal")>>
                      ELSE <<Line("insights_header")>>
                           \o (IF idle = <<>> THEN <<>>
                               ELSE <<[Line("idle_gpus") EXCEPT !.n = Len(idle)]>>
                                    \o [i \in 1..Len(idle) |->
                                           [Line("idle_gpu") EXCEPT !.node = idle[i].node]]
                                    \o <<Line("action")>>)
                           \o (IF high = <<>> THEN <<>>
                               ELSE <<[Line("high_gpus") EXCEPT !.n = Len(high)]>>
                                    \o [i \in 1..Len(high) |->
                                           [Line("high_gpu") EXCEPT !.node = high[i].node]]
                                    \o <<Line("action")>>))]

\* int(float(text)) & bit # 0
BitSet(val, bit) == ((val \div 1000) \div bit) % 2 = 1

\* gpu.py lines 72-134: the report for the samples of xid_errors, throttle
\* and temp
GpuHealthReport(xid, throttle, temp) ==
    LET xid_errors == SelectSeq(xid, LAMBDA r : Float(r.value).val > 0)
        throttled == SelectSeq(throttle, LAMBDA r :
                        /\ Float(r.value).val \div 1000 > 0
                        /\ (BitSet(Float(r.value).val, 4) \/ BitSet(Float(r.value).val, 8)))
        hot_gpus == SelectSeq(temp, LAMBDA r : Float(r.value).val > 80000)
    IN [raised |-> FALSE, err |-> NoErr,
        lines |-> <<Line("title")>>
                  \o (IF xid_errors = <<>> THEN <<Line("no_xid_errors")>>
                      ELSE <<Line("xid_errors_header")>>
                           \o [i \in 1..Len(xid_errors) |->
                                  [Line("xid_error") EXCEPT !.node = xid_errors[i].node]]
                           \o <<Line("action")>>)
                  \o (IF throttled = <<>> THEN <<Line("no_throttling")>>
                      ELSE <<Line("throttling_header")>>
                           \o [i \in 1..Len(throttled) |->
                                  [Line("throttled") EXCEPT !.node = throttled[i].node]])
                  \o (IF hot_gpus = <<>> THEN <<>>
                      ELSE <<Line("high_temperatures_header")>>
                           \o [i \in 1..Len(hot_gpus) |->
                                  [Line("hot_gpu") EXCEPT !.node = hot_gpus[i].node]])]

----------------------------------------------------------------------------
(* tools/storage.py: check_persistent_volume_capacity *)

\* pvcs_json.get("items", []) of each text
PvcItems(doc) ==
    CASE doc = "pvcs[db Bound]" -> <<[namespace |-> "ns", name |-> "db", phase |-> "Bound"]>>
      [] doc = "pvcs[db Bound, logs Pending]"
            -> <<[namespace |-> "ns", name |-> "db", phase |-> "Bound"],
                 [namespace |-> "ns", name |-> "logs", phase |-> "Pending"]>>
      [] doc = "pvcs[db Bound, logs Bound]"
            -> <<[namespace |-> "ns", name |-> "db", phase |-> "Bound"],
                 [namespace |-> "ns", name |-> "logs", phase |-> "Bound"]>>
      [] OTHER -> <<>>

\* pods_json.get("items", []) of each text, with the volumes of each pod
MountPods(doc) ==
    CASE doc = "pods[p@n1 mounts db as data]"
            -> <<[namespace |-> "ns", name |-> "p", nodeName |-> "n1",
                  volumes |-> <<[claimName |-> "db", name |-> "data"]>>]>>
      [] doc = "pods[p unscheduled mounts db as data]"
            -> <<[namespace |-> "ns", name |-> "p", nodeName |-> None,
                  volumes |-> <<[claimName |-> "db", name |-> "data"]>>]>>
      [] doc = "pods[p@n1 mounts db as data, q@n1 mounts logs as data]"
            -> <<[namespace |-> "ns", name |-> "p", nodeName |-> "n1",
                  volumes |-> <<[claimName |-> "db", name |-> "data"]>>],
                 [namespace |-> "ns", name |-> "q", nodeName |-> "n1",
                  volumes |-> <<[claimName |-> "logs", name |-> "data"]>>]>>
      [] doc = "pods[p@n1 mounts db as data, q@n2 mounts logs as data]"
            -> <<[namespace |-> "ns", name |-> "p", nodeName |-> "n1",
                  volumes |-> <<[claimName |-> "db", name |-> "data"]>>],
                 [namespace |-> "ns", name |-> "q", nodeName |-> "n2",
                  volumes |-> <<[claimName |-> "logs", name |-> "data"]>>]>>
      [] OTHER -> <<>>

VolumeStat(pod, used, capacity) ==
    <<[namespace |-> "ns", name |-> pod,
       volume |-> <<[name |-> "data", usedBytes |-> used, capacityBytes |-> capacity]>>]>>

\* stats.get("pods", []) of each text
VolumeStats(doc) ==
    CASE doc = "stats{p/data 96 of 100}" -> VolumeStat("p", 96, 100)
      [] doc = "stats{p/data 90 of 100}" -> VolumeStat("p", 90, 100)
      [] doc = "stats{p/data 10 of 100}" -> VolumeStat("p", 10, 100)
      [] doc = "stats{p/data 0 of 0}" -> VolumeStat("p", 0, 0)
      [] doc = "stats{q/data 97 of 100}" -> VolumeStat("q", 97, 100)
      [] doc = "stats{p/data 10 of 100, q/data 97 of 100}"
            -> VolumeStat("p", 10, 100) \o VolumeStat("q", 97, 100)
      [] OTHER -> <<>>

\* a dictionary without keys is false
EmptyDict(doc) == doc = "stats{}"

VolumeStatsProcs ==
    {[launch |-> "started", returncode |-> 0, stdout |-> o, stderr |-> ""] :
        o \in VolumeStatsTexts}
    \cup {[launch |-> "started", returncode |-> 1, stdout |-> "", stderr |-> "error: forbidden"]}

\* lines 269-296: the pods that mount a claim, in the order they are seen;
\* pvc_usage_map keeps the first
Mounting(pods, namespace, claim) ==
    SelectSeq(pods, LAMBDA pod :
        /\ Truthy(pod.nodeName)
        /\ pod.namespace = namespace
        /\ \E k \in 1..Len(pod.volumes) : pod.volumes[k].claimName = claim)

\* the name of the volume of the claim in the pod spec: the first that names it
VolumeName(pod, claim) ==
    pod.volumes[CHOOSE k \in 1..Len(pod.volumes) :
                    /\ pod.volumes[k].claimName = claim
                    /\ \A j \in 1..(k - 1) : pod.volumes[j].claimName # claim].name

\* lines 298-301: the set of the nodes of pvc_usage_map
NodesToFetch(pods) ==
    LET used == SelectSeq(pods, LAMBDA pod : Truthy(pod.nodeName) /\ pod.volumes # <<>>) IN
    {used[i].nodeName : i \in 1..Len(used)}

\* line 305: the orders in which the loop can visit the set
Orders(nodes) ==
    {order \in [1..Cardinality(nodes) -> nodes] :
        \A i, j \in 1..Cardinality(nodes) : order[i] = order[j] => i = j}

\* lines 317-382: the entry of pvc_data for one claim, as a sequence of one
\* entry or none; node_stats_cache holds the summary of a node or, for a node
\* that was not asked or whose stats failed, nothing
PvcEntry(pvc, pods, node_stats_cache) ==
    IF pvc.phase # "Bound" THEN <<>>
    ELSE IF Mounting(pods, pvc.namespace, pvc.name) = <<>> THEN <<>>
    ELSE
    LET pod == Head(Mounting(pods, pvc.namespace, pvc.name))
        stats_r == node_stats_cache[pod.nodeName]
    IN
    IF ~stats_r.ok \/ EmptyDict(stats_r.val) THEN <<>>
    ELSE
    LET vol_name == VolumeName(pod, pvc.name)
        pod_stats == SelectSeq(VolumeStats(stats_r.val), LAMBDA ps :
                        /\ ps.name = pod.name /\ ps.namespace = pvc.namespace
                        /\ \E k \in 1..Len(ps.volume) : ps.volume[k].name = vol_name)
        found == SelectSeq(pod_stats, LAMBDA ps :
                    LET k == CHOOSE k \in 1..Len(ps.volume) :
                                /\ ps.volume[k].name = vol_name
                                /\ \A j \in 1..(k - 1) : ps.volume[j].name # vol_name
                    IN ps.volume[k].capacityBytes > 0)
    IN IF found = <<>> THEN <<>>
       ELSE LET vol == Head(SelectSeq(Head(found).volume, LAMBDA v : v.name = vol_name)) IN
            <<[name |-> pvc.name, used |-> vol.usedBytes, capacity |-> vol.capacityBytes]>>

\* lines 313-382: pvc_data, the entries of the claims that could be analyzed
PvcData(pvcs, pods, node_stats_cache) ==
    Flatten([i \in 1..Len(pvcs) |-> PvcEntry(pvcs[i], pods, node_stats_cache)])

\* sorted(..., key=usage_percent, reverse=True): the fullest first, equal
\* ones in the order they have
RECURSIVE ByUsage(_)
ByUsage(es) ==
    IF es = <<>> THEN <<>>
    ELSE LET Fuller(a, b) == a.used * b.capacity > b.used * a.capacity
             i == CHOOSE i \in 1..Len(es) :
                     /\ \A j \in 1..Len(es) : ~Fuller(es[j], es[i])
                     /\ \A j \in 1..(i - 1) : Fuller(es[i], es[j])
         IN <<es[i]>> \o ByUsage(SubSeq(es, 1, i - 1) \o SubSeq(es, i + 1, Len(es)))

\* line 420: the first five
TopFive(es) == SubSeq(es, 1, IF Len(es) < 5 THEN Len(es) ELSE 5)

\* lines 313-445: the report for the claims, the pods and the stats of the
\* nodes; usage_percent >= t is used * 100 >= t * capacity
PvcReport(pvcs, pods, node_stats_cache, threshold) ==
    LET pvc_data == PvcData(pvcs, pods, node_stats_cache)
        critical == ByUsage(SelectSeq(pvc_data, LAMBDA e : e.used * 100 >= 95 * e.capacity))
        warnings == ByUsage(SelectSeq(pvc_data, LAMBDA e :
                        /\ e.used * 100 < 95 * e.capacity
                        /\ e.used * 100 >= threshold * e.capacity))
        healthy == ByUsage(SelectSeq(pvc_data, LAMBDA e :
                        e.used * 100 < threshold * e.capacity))
        Entries(kind, es, extra) ==
            Flatten([i \in 1..Len(es) |->
                        <<[Line(kind) EXCEPT !.node = es[i].name,
                                             !.cells = <<es[i].used, es[i].capacity>>]>>
                        \o extra])
    IN [raised |-> FALSE, err |-> NoErr,
        lines |->
           <<Line("title"), [Line("summary") EXCEPT !.n = Len(pvc_data)]>>
           \o (IF critical = <<>> THEN <<>>
               ELSE <<Line("critical_header")>>
                    \o Entries("critical", critical, <<Line("used_by"), Line("action")>>)
                    \o <<Line("blank")>>)
           \o (IF warnings = <<>> THEN <<>>
               ELSE <<Line("warning_header")>>
                    \o Entries("warning", warnings, <<Line("used_by")>>)
                    \o <<Line("blank")>>)
           \o (IF healthy = <<>> THEN <<>>
               ELSE <<[Line("healthy_header") EXCEPT !.n = Len(healthy)], Line("top_five")>>
                    \o Entries("healthy", TopFive(healthy), <<>>)
                    \o <<Line("blank")>>)
           \o (IF critical = <<>> /\ warnings = <<>> THEN <<>>
               ELSE <<Line("recommendations_header")>>
                    \o (IF critical = <<>> THEN <<>> ELSE <<Line("recommendation")>>)
                    \o (IF warnings = <<>> THEN <<>> ELSE <<Line("recommendation")>>)
                    \o <<Line("recommendation"), Line("recommendation")>>)
           \o (IF pvc_data # <<>> THEN <<>>
               ELSE <<Line("no_usage_statistics"), Line("possible_reasons"), Line("reason"),
                      Line("reason"), [Line("total_pvcs") EXCEPT !.n = Len(pvcs)]>>)]

----------------------------------------------------------------------------
(* tools/diagnostics.py: get_pod_logs *)

\* a command handed to run_oc_command or run_oc_json: its first word, what it
\* is about and the flags that depend on the state of the tool
OcCall(verb, target, flags) == [verb |-> verb, target |-> target, flags |-> flags]

ContainerNames == {"init", "c1"}

NoStatus == [name |-> None, state |-> None, reason |-> None, restartCount |-> 0]

\* spec.initContainers, spec.containers and the statuses of each text
PodSpec(doc) ==
    CASE doc = "pod{c1 running}"
            -> [initContainers |-> <<>>, containers |-> <<"c1">>,
                statuses |-> <<[name |-> "c1", state |-> "running", reason |-> None,
                                restartCount |-> 0]>>]
      [] doc = "pod{c1 CrashLoopBackOff before a restart}"
            -> [initContainers |-> <<>>, containers |-> <<"c1">>,
                statuses |-> <<[name |-> "c1", state |-> "waiting",
                                reason |-> "CrashLoopBackOff", restartCount |-> 0]>>]
      [] doc = "pod{init, c1 CrashLoopBackOff}"
            -> [initContainers |-> <<"init">>, containers |-> <<"c1">>,
                statuses |-> <<[name |-> "c1", state |-> "waiting",
                                reason |-> "CrashLoopBackOff", restartCount |-> 3],
                               [name |-> "init", state |-> "terminated",
                                reason |-> "Completed", restartCount |-> 0]>>]
      [] OTHER -> [initContainers |-> <<>>, containers |-> <<>>, statuses |-> <<>>]

\* what `oc logs` writes to stderr when it fails
NoPreviousStderr ==
    "Error from server (BadRequest): previous terminated container \"c\" in pod \"p\" not found"
PodNotFoundStderr == "Error from server (NotFound): pods \"p\" not found"
NotValidStderr == "error: container c is not valid for pod p"

\* what `oc logs` can do
LogsProcs ==
    {[launch |-> "started", returncode |-> 0, stdout |-> o, stderr |-> ""] :
        o \in {"started\nfailed\nexited\n", "started\nfailed\n", " \n", ""}}
    \cup {[launch |-> "started", returncode |-> 1, stdout |-> "", stderr |-> e] :
            e \in {NoPreviousStderr, PodNotFoundStderr, NotValidStderr, "error: forbidden"}}
    \cup {[launch |-> l, returncode |-> 0, stdout |-> "", stderr |-> ""] :
            l \in LaunchOutcomes \ {"started"}}

\* the pieces of the messages of the model whose lower case holds the words
Holding(words) ==
    CASE words = "previous terminated container" -> {NoPreviousStderr}
      [] words = "not found"
            -> {NoPreviousStderr, PodNotFoundStderr, "The 'oc' CLI tool is not found in PATH."}

\* line 111: words in error_msg.lower()
InLower(words, error_msg) == \E i \in 1..Len(error_msg) : error_msg[i] \in Holding(words)

\* lines 36-47: the containers whose logs are asked for; the named one, or
\* the init containers and then the others
Containers(doc, container) ==
    IF Truthy(container) THEN <<container>>
    ELSE PodSpec(doc).initContainers \o PodSpec(doc).containers

\* lines 39-41: the named container is none of the pod
Unknown(doc, container) ==
    /\ Truthy(container)
    /\ ~InSeq(container, PodSpec(doc).containers \o PodSpec(doc).initContainers)

\* line 57: the first status of the name
ContainerStatus(doc, name) ==
    LET found == SelectSeq(PodSpec(doc).statuses, LAMBDA cs : cs.name = name) IN
    IF found = <<>> THEN NoStatus ELSE Head(found)

\* lines 60-74 with the CrashLoopBackOff of any container of the pod
GetPrevious_AnyCrashLoop(doc, name, previous) ==
    \/ previous
    \/ \E i \in 1..Len(PodSpec(doc).statuses) :
          LET cs == PodSpec(doc).statuses[i] IN
          cs.state = "waiting" /\ cs.reason = "CrashLoopBackOff" /\ cs.restartCount > 0

\* lines 60-74
GetPrevious(doc, name, previous) ==
    LET cs == ContainerStatus(doc, name) IN
    \/ previous
    \/ cs.state = "waiting" /\ cs.reason = "CrashLoopBackOff" /\ cs.restartCount > 0

\* lines 81-84: the header of a container and the line of its state
ContainerHeader(doc, name, previous) ==
    <<[Line("container_header") EXCEPT
          !.node = name,
          !.cells = <<IF GetPrevious(doc, name, previous) THEN "PREVIOUS" ELSE "CURRENT">>]>>
    \o (IF ContainerStatus(doc, name).state = None THEN <<>>
        ELSE <<[Line("state") EXCEPT !.node = name,
                                     !.cells = <<ContainerStatus(doc, name).state>>]>>)

\* line 100: logs.strip().split("\n") of the texts of the model
StripLogs(logs) ==
    CASE logs = "started\nfailed\nexited\n" -> <<"started", "failed", "exited">>
      [] logs = "started\nfailed\n" -> <<"started", "failed">>
      [] OTHER -> <<>>

\* line 102: lines[-tail:]; the slice from -0 is the slice from 0
LastLines(lines, tail) ==
    IF tail = 0 THEN lines ELSE SubSeq(lines, Len(lines) - tail + 1, Len(lines))

\* lines 87-91: the logs command of a container
LogCmd(doc, name, previous) ==
    OcCall("logs", name, IF GetPrevious(doc, name, previous) THEN {"--previous"} ELSE {})

\* lines 109-114: the choice between the note and the error
IsNote(error_msg) ==
    InLower("previous terminated container", error_msg) \/ InLower("not found", error_msg)

\* lines 93-114: the lines for the outcome of the logs call of a container;
\* the cells of the line of the logs are the lines of the log that are shown
LogLines(name, r, tail) ==
    IF r.ok
    THEN IF StripLogs(r.val) = <<>>
         THEN <<[Line("no_logs") EXCEPT !.node = name]>>
         ELSE (IF Len(StripLogs(r.val)) > tail
               THEN <<[Line("showing_last") EXCEPT !.node = name, !.n = tail]>>
               ELSE <<>>)
              \o <<Line("fence"),
                    [Line("logs") EXCEPT
                        !.node = name,
                        !.cells = IF Len(StripLogs(r.val)) > tail
                                  THEN LastLines(StripLogs(r.val), tail)
                                  ELSE StripLogs(r.val)],
                    Line("fence")>>
    ELSE IF IsNote(StrOf(r.err))
    THEN <<[Line("no_previous_logs") EXCEPT !.node = name]>>
    ELSE <<[Line("logs_error") EXCEPT !.node = name, !.cells = StrOf(r.err)]>>

\* the name under which the outcome of the logs call of a container is kept
LogsOf(name) == IF name = "init" THEN "logs_init" ELSE "logs_c1"

----------------------------------------------------------------------------
(* tools/diagnostics.py: get_pod_diagnostics *)

UnboundLocalError ==
    [exc |-> "UnboundLocalError",
     msg |-> <<"cannot access local variable 'recommendations'">>]

\* line 181: the statuses of the init containers and then of the others
AllStatuses(doc) ==
    LET IsInit(cs) == InSeq(cs.name, PodSpec(doc).initContainers) IN
    SelectSeq(PodSpec(doc).statuses, IsInit)
    \o SelectSeq(PodSpec(doc).statuses, LAMBDA cs : ~IsInit(cs))

\* lines 194-221: the recommendations for one status; the statuses of the
\* model have no exitCode, which reads as N/A
Recommend(cs) ==
    (IF cs.state = "waiting"
        /\ cs.reason \in {"ImagePullBackOff", "ErrImagePull", "CrashLoopBackOff",
                          "CreateContainerConfigError"}
     THEN <<[Line("recommendation") EXCEPT !.node = cs.name, !.cells = <<cs.reason>>]>>
     ELSE IF cs.state = "terminated" /\ cs.reason \in {"OOMKilled", "Error"}
     THEN <<[Line("recommendation") EXCEPT !.node = cs.name, !.cells = <<cs.reason>>]>>
     ELSE <<>>)
    \o (IF cs.restartCount > 5
        THEN <<[Line("recommendation") EXCEPT !.node = cs.name,
                                              !.cells = <<"High restart count">>]>>
        ELSE <<>>)

\* lines 140-225: the report down to the table of the containers; the pods
\* of the model have no conditions
DiagHead(doc) ==
    LET all_statuses == AllStatuses(doc) IN
    <<Line("title"), Line("pod_status_header"), Line("phase"), Line("node"), Line("qos_class"),
      Line("start_time"), Line("container_status_header")>>
    \o (IF all_statuses = <<>> THEN <<>>
        ELSE <<Line("table_header"), Line("table_rule")>>
             \o [i \in 1..Len(all_statuses) |->
                    [Line("row") EXCEPT !.node = all_statuses[i].name,
                                        !.n = all_statuses[i].restartCount]]
             \o <<Line("blank")>>)

\* lines 177-225: recommendations is bound only where the pod has a status
\* of a container or of an init container
RecommendationsBound(doc) == AllStatuses(doc) # <<>>

Recommendations(doc) ==
    Flatten([i \in 1..Len(AllStatuses(doc)) |-> Recommend(AllStatuses(doc)[i])])

\* events_json.get("items", []) of each text
EventItems(doc) ==
    CASE doc = "events[Normal Pulled]" -> <<[type |-> "Normal", reason |-> "Pulled"]>>
      [] doc = "events[Warning BackOff, Normal Pulled, Warning Failed]"
            -> <<[type |-> "Warning", reason |-> "BackOff"],
                 [type |-> "Normal", reason |-> "Pulled"],
                 [type |-> "Warning", reason |-> "Failed"]>>
      [] OTHER -> <<>>

\* lines 238-239: the warnings and errors, the last 20 of them
WarningEvents(events) ==
    LET warning_events == SelectSeq(events, LAMBDA e : e.type \in {"Warning", "Error"}) IN
    IF Len(warning_events) <= 20 THEN warning_events
    ELSE SubSeq(warning_events, Len(warning_events) - 19, Len(warning_events))

\* lines 228-261: the lines of the events, the most recent first; an OCError
\* of the lookup is only logged
EventLines(events_r) ==
    IF ~events_r.ok THEN <<>>
    ELSE LET warning_events == WarningEvents(EventItems(events_r.val)) IN
         IF warning_events = <<>> THEN <<>>
         ELSE <<Line("events_header"), Line("table_header"), Line("table_rule")>>
              \o [i \in 1..Len(warning_events) |->
                     [Line("event") EXCEPT
                         !.cells = <<warning_events[Len(warning_events) + 1 - i].reason>>]]
              \o <<Line("blank")>>

\* lines 227-271: the rest of the report, or the exception of line 264 when
\* recommendations was never bound
DiagTail(doc, events_r) ==
    IF ~RecommendationsBound(doc)
    THEN [raised |-> TRUE, err |-> UnboundLocalError, lines |-> <<>>]
    ELSE [raised |-> FALSE, err |-> NoErr,
          lines |-> DiagHead(doc) \o EventLines(events_r)
                    \o (IF Recommendations(doc) # <<>>
                        THEN <<Line("recommendations_header")>> \o Recommendations(doc)
                        ELSE <<Line("no_issues")>>)]

----------------------------------------------------------------------------
(* tools/gpu.py: inspect_gpu_pod *)

\* what the jsonpath of the phase writes in the model
PhaseTexts == {"Running", "Running\n", "Pending", "running", ""}

\* line 27: phase.strip()
StripPhase(phase) == IF phase = "Running\n" THEN "Running" ELSE phase

PhaseProcs ==
    {[launch |-> "started", returncode |-> 0, stdout |-> o, stderr |-> ""] : o \in PhaseTexts}
    \cup {[launch |-> "started", returncode |-> 1, stdout |-> "", stderr |-> PodNotFoundStderr]}
    \cup {[launch |-> l, returncode |-> 0, stdout |-> "", stderr |-> ""] :
            l \in LaunchOutcomes \ {"started"}}

\* what `oc exec` writes to stderr when the pod has no nvidia-smi
ExecNotFoundStderr == "exec: \"nvidia-smi\": executable file not found in $PATH"

ExecProcs ==
    {[launch |-> "started", returncode |-> 0, stdout |-> o, stderr |-> ""] :
        o \in {"GPU 0: 40MiB", ""}}
    \cup {[launch |-> "started", returncode |-> c, stdout |-> "", stderr |-> e] :
            c \in {1}, e \in {ExecNotFoundStderr, "error: forbidden"}}
    \cup {[launch |-> l, returncode |-> 0, stdout |-> "", stderr |-> ""] :
            l \in LaunchOutcomes \ {"started"}}

\* line 37: "executable file not found" in str(e)
ExecutableMissing(e) == InSeq(ExecNotFoundStderr, StrOf(e))

\* lines 36-39: the text for an OCError of either command
InspectError(e) ==
    [raised |-> FALSE, err |-> NoErr,
     lines |-> IF ExecutableMissing(e) THEN <<Line("nvidia_smi_not_found")>>
               ELSE <<ErrorLine("Error running nvidia-smi", e)>>]

\* lines 26-28 and 36-39 without the test of the phase
InspectPhase_AnyPhase(r) ==
    IF ~r.ok THEN [go |-> FALSE, out |-> InspectError(r.err)]
    ELSE [go |-> TRUE,
          out |-> [raised |-> FALSE, err |-> NoErr,
                   lines |-> <<[Line("not_running") EXCEPT !.cells = <<r.val>>]>>]]

\* lines 26-28 and 36-39: what the tool returns at the outcome of the phase
\* lookup, and whether it goes on to the exec
InspectPhase(r) ==
    IF ~r.ok THEN [go |-> FALSE, out |-> InspectError(r.err)]
    ELSE [go |-> StripPhase(r.val) = "Running",
          out |-> [raised |-> FALSE, err |-> NoErr,
                   lines |-> <<[Line("not_running") EXCEPT !.cells = <<r.val>>]>>]]

\* lines 32-39: what the tool returns at the outcome of the exec
InspectExec(r) ==
    IF ~r.ok THEN InspectError(r.err)
    ELSE [raised |-> FALSE, err |-> NoErr,
          lines |-> <<Line("gpu_status_title"), Line("blank"), Line("fence"),
                      [Line("output") EXCEPT !.cells = <<r.val>>], Line("fence")>>]

----------------------------------------------------------------------------
(* The report builders as invocations *)

FetchNames == {"nodes", "pods", "usage", "query", "utilization", "memory_used", "memory_free",
               "xid_errors", "temp", "power", "throttle", "pvcs", "mount_pods", "stats_n1",
               "stats_n2", "phase", "exec", "events",
               "pod", "logs_init", "logs_c1"}

NotFetched == Raise([exc |-> "NotFetched", msg |-> <<>>])

\* the name under which the outcome of the stats call of a node is kept
StatsOf(node) == IF node = "n1" THEN "stats_n1" ELSE "stats_n2"

\* storage.py lines 304-310: node_stats_cache after the fetches made so far
NodeStatsCache == [n \in NodeNames |-> fetched[StatsOf(n)]]

\* the defaults of the arguments of the tools: container, previous and tail of
\* get_pod_logs, threshold of check_persistent_volume_capacity
NoArgs == [container |-> None, previous |-> FALSE, tail |-> 100, threshold |-> 85]

InitTools ==
    /\ tool = None
    /\ tool_pc = "idle"
    /\ tool_node = None
    /\ tool_args = NoArgs
    /\ pending = {}
    /\ fetched = [f \in FetchNames |-> NotFetched]
    /\ st_names = <<>>
    /\ tool_lines = <<>>
    /\ tool_err = NoErr
    /\ issued = <<>>
    /\ OcParked
    /\ PromParked
    /\ FmtParked

\* the invocation ends with the outcome out
Finish(out) ==
    /\ tool_pc' = IF out.raised THEN "raised" ELSE "returned"
    /\ tool_err' = out.err
    /\ tool_lines' = out.lines

\* resources.py lines 20-38: the three fetches are handed to gather together
BalanceInvoke ==
    /\ tool_pc = "idle"
    /\ tool' = "get_cluster_resource_balance"
    /\ tool_pc' = "gather"
    /\ pending' = {"nodes", "pods", "usage"}
    /\ issued' = <<OcCall("get", "nodes", {}), OcCall("get", "pods", {}),
                   OcCall("adm", "top nodes", {})>>
    /\ UNCHANGED <<tool_node, tool_args, fetched, st_names, tool_lines, tool_err,
                   ocVars, promVars, fmtVars>>

\* what each fetch of gather can end with
FetchOutcomes(f) ==
    CASE f = "nodes" -> {run_oc_json(p) : p \in FetchProcs(NodesTexts)}
      [] f = "pods" -> {run_oc_json(p) : p \in FetchProcs(PodsTexts)}
      [] f = "usage" -> {run_oc_command(p) : p \in UsageProcs}

\* one of the fetches finishes; gather keeps its result or its exception
FetchReturn(f) ==
    /\ tool_pc = "gather"
    /\ f \in pending
    /\ \E r \in FetchOutcomes(f) : fetched' = [fetched EXCEPT ![f] = r]
    /\ pending' = pending \ {f}
    /\ UNCHANGED <<tool, tool_pc, tool_node, tool_args, st_names, tool_lines, tool_err,
                   issued, ocVars, promVars, fmtVars>>

\* resources.py lines 40-155 with the report built at the first outcome
BalanceResume_FirstDone ==
    /\ tool_pc = "gather"
    /\ pending # {"nodes", "pods", "usage"}
    /\ Finish(BalanceReport(fetched["nodes"], fetched["pods"], fetched["usage"]))
    /\ UNCHANGED <<tool, tool_node, tool_args, pending, fetched, st_names,
                   issued, ocVars, promVars, fmtVars>>

\* resources.py lines 40-155: gather has all three outcomes
BalanceResume ==
    /\ tool_pc = "gather"
    /\ pending = {}
    /\ Finish(BalanceReport(fetched["nodes"], fetched["pods"], fetched["usage"]))
    /\ UNCHANGED <<tool, tool_node, tool_args, pending, fetched, st_names,
                   issued, ocVars, promVars, fmtVars>>

\* storage.py lines 194-207: with a node the tool is analyze_node_storage of
\* it, outside every handler; without, the nodes are listed first
StorageInvoke(node) ==
    /\ tool_pc = "idle"
    /\ tool' = "get_cluster_storage_report"
    /\ tool_node' = node
    /\ IF Truthy(node)
       THEN /\ tool_pc' = "node_stats"
            /\ st_names' = <<node>>
            /\ issued' = <<OcCall("stats", node, {})>>
       ELSE /\ tool_pc' = "list_nodes"
            /\ st_names' = <<>>
            /\ issued' = <<OcCall("get", "nodes", {})>>
    /\ UNCHANGED <<tool_args, pending, fetched, tool_lines, tool_err,
                   ocVars, promVars, fmtVars>>

\* storage.py lines 207-224: the node list arrives
StorageNodesReturn ==
    /\ tool_pc = "list_nodes"
    /\ \E p \in FetchProcs(NodesTexts) :
         LET r == run_oc_json(p)
             listing == StorageListing(r)
         IN
         /\ fetched' = [fetched EXCEPT !["nodes"] = r]
         /\ st_names' = listing.names
         /\ IF listing.done \/ listing.names = <<>>
            THEN Finish(listing) /\ UNCHANGED issued
            ELSE /\ tool_pc' = "node_stats"
                 /\ tool_lines' = listing.lines
                 /\ tool_err' = NoErr
                 /\ issued' = Append(issued, OcCall("stats", Head(listing.names), {}))
    /\ UNCHANGED <<tool, tool_node, tool_args, pending, ocVars, promVars, fmtVars>>

\* storage.py lines 143-192 and 217-221: the stats of the next node arrive
StorageStatsReturn ==
    /\ tool_pc = "node_stats"
    /\ \E p \in StatsProcs :
         LET stats_r == get_node_stats_summary(p)
             a == analyze_node_storage(Head(st_names), stats_r)
         IN
         /\ fetched' = [fetched EXCEPT ![StatsOf(Head(st_names))] = stats_r]
         /\ IF a.raised \/ Truthy(tool_node)
            THEN /\ Finish(a)
                 /\ UNCHANGED <<st_names, issued>>
            ELSE /\ st_names' = Tail(st_names)
                 /\ tool_lines' = tool_lines \o a.lines \o <<Line("separator")>>
                 /\ tool_pc' = IF Tail(st_names) = <<>> THEN "returned" ELSE "node_stats"
                 /\ tool_err' = NoErr
                 /\ issued' = IF Tail(st_names) = <<>> THEN issued
                               ELSE Append(issued, OcCall("stats", st_names[2], {}))
    /\ UNCHANGED <<tool, tool_node, tool_args, pending, ocVars, promVars, fmtVars>>

\* monitoring.py lines 22-25
RestartsInvoke ==
    /\ tool_pc = "idle"
    /\ tool' = "detect_pod_restarts_anomalies"
    /\ tool_pc' = "query"
    /\ UNCHANGED <<tool_node, tool_args, pending, fetched, st_names, tool_lines, tool_err,
                   issued, ocVars, promVars, fmtVars>>

\* monitoring.py lines 25-67: query_prometheus returns or raises
RestartsQueryReturn ==
    /\ tool_pc = "query"
    /\ \E r \in QueryOutcomes :
         /\ fetched' = [fetched EXCEPT !["query"] = r]
         /\ Finish(RestartsReport(r))
    /\ UNCHANGED <<tool, tool_node, tool_args, pending, st_names, issued, ocVars, promVars, fmtVars>>

\* monitoring.py lines 87-98: the first query is issued
GpuUtilizationInvoke ==
    /\ tool_pc = "idle"
    /\ tool' = "get_gpu_utilization"
    /\ tool_pc' = "gpu_query"
    /\ st_names' = UtilizationQueries
    /\ UNCHANGED <<tool_node, tool_args, pending, fetched, tool_lines, tool_err,
                   issued, ocVars, promVars, fmtVars>>

\* gpu.py lines 53-66: the first query is issued
GpuHealthInvoke ==
    /\ tool_pc = "idle"
    /\ tool' = "check_gpu_health"
    /\ tool_pc' = "gpu_query"
    /\ st_names' = HealthQueries
    /\ UNCHANGED <<tool_node, tool_args, pending, fetched, tool_lines, tool_err,
                   issued, ocVars, promVars, fmtVars>>

\* the report of the tool once its last query has returned
GpuReport(name, got) ==
    IF name = "get_gpu_utilization"
    THEN GpuUtilizationReport(MetricList(got["utilization"]), MetricList(got["memory_used"]),
                              MetricList(got["memory_free"]))
    ELSE GpuHealthReport(MetricList(got["xid_errors"]), MetricList(got["throttle"]),
                         MetricList(got["temp"]))

\* monitoring.py lines 96-215, gpu.py lines 62-137: a query returns or raises;
\* an exception that is no OCError leaves the tool, the next query is issued,
\* or the report is built after the last one
GpuQueryReturn ==
    /\ tool_pc = "gpu_query"
    /\ \E r \in GpuQueryOutcomes :
         LET got == [fetched EXCEPT ![Head(st_names)] = r] IN
         /\ fetched' = got
         /\ IF Escapes(r)
            THEN /\ Finish([raised |-> TRUE, err |-> r.err, lines |-> <<>>])
                 /\ UNCHANGED st_names
            ELSE IF Tail(st_names) = <<>>
            THEN /\ Finish(GpuReport(tool, got))
                 /\ st_names' = <<>>
            ELSE /\ st_names' = Tail(st_names)
                 /\ UNCHANGED <<tool_pc, tool_lines, tool_err>>
    /\ UNCHANGED <<tool, tool_node, tool_args, pending, issued, ocVars, promVars, fmtVars>>

\* the threshold arguments of the model: the default, one below it and one
\* above the fixed boundary of 95
Thresholds == {50, 85, 98}

\* storage.py lines 243-252: the claims are listed first
PvcInvoke(threshold) ==
    /\ tool_pc = "idle"
    /\ tool' = "check_persistent_volume_capacity"
    /\ tool_args' = [NoArgs EXCEPT !.threshold = threshold]
    /\ tool_pc' = "list_pvcs"
    /\ issued' = <<OcCall("get", "pvc", {})>>
    /\ UNCHANGED <<tool_node, pending, fetched, st_names, tool_lines, tool_err,
                   ocVars, promVars, fmtVars>>

\* storage.py lines 251-264 and 447-448: the list of the claims arrives; an
\* OCError becomes the error text, no claim at all ends the tool with one
\* sentence, otherwise the pods are listed
PvcListReturn ==
    /\ tool_pc = "list_pvcs"
    /\ \E p \in FetchProcs(PvcTexts) :
         LET r == run_oc_json(p) IN
         /\ fetched' = [fetched EXCEPT !["pvcs"] = r]
         /\ IF ~r.ok
            THEN /\ Finish([raised |-> FALSE, err |-> NoErr,
                            lines |-> <<ErrorLine("Error checking PVC capacity", r.err)>>])
                 /\ UNCHANGED issued
            ELSE IF PvcItems(r.val) = <<>>
            THEN /\ Finish([raised |-> FALSE, err |-> NoErr, lines |-> <<Line("no_pvcs")>>])
                 /\ UNCHANGED issued
            ELSE /\ tool_pc' = "list_mount_pods"
                 /\ issued' = Append(issued, OcCall("get", "pods", {}))
                 /\ UNCHANGED <<tool_lines, tool_err>>
    /\ UNCHANGED <<tool, tool_node, tool_args, pending, st_names, ocVars, promVars, fmtVars>>

\* storage.py lines 264-310 and 447-448: the list of the pods arrives; with
\* no node to ask the report is built at once, otherwise the loop over the
\* set of the nodes starts with any of them
PvcPodsReturn ==
    /\ tool_pc = "list_mount_pods"
    /\ \E p \in FetchProcs(MountPodsTexts) :
         LET r == run_oc_json(p) IN
         /\ fetched' = [fetched EXCEPT !["mount_pods"] = r]
         /\ IF ~r.ok
            THEN /\ Finish([raised |-> FALSE, err |-> NoErr,
                            lines |-> <<ErrorLine("Error checking PVC capacity", r.err)>>])
                 /\ UNCHANGED <<st_names, issued>>
            ELSE IF NodesToFetch(MountPods(r.val)) = {}
            THEN /\ Finish(PvcReport(PvcItems(fetched["pvcs"].val), MountPods(r.val),
                                     NodeStatsCache, tool_args.threshold))
                 /\ UNCHANGED <<st_names, issued>>
            ELSE \E order \in Orders(NodesToFetch(MountPods(r.val))) :
                 /\ tool_pc' = "volume_stats"
                 /\ st_names' = order
                 /\ issued' = Append(issued, OcCall("stats", order[1], {}))
                 /\ UNCHANGED <<tool_lines, tool_err>>
    /\ UNCHANGED <<tool, tool_node, tool_args, pending, ocVars, promVars, fmtVars>>

\* storage.py lines 304-445: the stats of a node arrive and are kept, or fail
\* with an OCError that is only logged; the next node is asked, and after the
\* last one the report is built
PvcStatsReturn ==
    /\ tool_pc = "volume_stats"
    /\ \E p \in VolumeStatsProcs :
         LET r == get_node_stats_summary(p)
             got == [fetched EXCEPT ![StatsOf(Head(st_names))] = r]
             rest == Tail(st_names)
         IN
         /\ fetched' = got
         /\ st_names' = rest
         /\ IF rest = <<>>
            THEN /\ Finish(PvcReport(PvcItems(fetched["pvcs"].val),
                                     MountPods(fetched["mount_pods"].val),
                                     [n \in NodeNames |-> got[StatsOf(n)]],
                                     tool_args.threshold))
                 /\ UNCHANGED issued
            ELSE /\ issued' = Append(issued, OcCall("stats", Head(rest), {}))
                 /\ UNCHANGED <<tool_pc, tool_lines, tool_err>>
    /\ UNCHANGED <<tool, tool_node, tool_args, pending, ocVars, promVars, fmtVars>>

\* the tail arguments of the model: none, fewer than the lines of a log, as
\* many, and the default
Tails == {0, 1, 2, 100}

\* diagnostics.py lines 28-30: the pod is fetched first
LogsInvoke(container, previous, tail) ==
    /\ tool_pc = "idle"
    /\ tool' = "get_pod_logs"
    /\ tool_args' = [NoArgs EXCEPT !.container = container, !.previous = previous,
                                   !.tail = tail]
    /\ tool_pc' = "get_pod"
    /\ issued' = <<OcCall("get", "pod", {})>>
    /\ UNCHANGED <<tool_node, pending, fetched, st_names, tool_lines, tool_err,
                   ocVars, promVars, fmtVars>>

\* diagnostics.py lines 30-94 and 118-119: the pod arrives; an OCError becomes
\* the error text, an unknown container or a pod without containers ends the
\* tool, otherwise the header of the first container is written and its logs
\* are asked for
LogsPodReturn ==
    /\ tool_pc = "get_pod"
    /\ \E p \in FetchProcs(PodTexts) :
         LET r == run_oc_json(p)
             names == Containers(r.val, tool_args.container)
             Ends(lines) == /\ Finish([raised |-> FALSE, err |-> NoErr, lines |-> lines])
                            /\ UNCHANGED <<st_names, issued>>
         IN
         /\ fetched' = [fetched EXCEPT !["pod"] = r]
         /\ IF ~r.ok THEN Ends(<<ErrorLine("Error accessing pod", r.err)>>)
            ELSE IF Unknown(r.val, tool_args.container)
            THEN Ends(<<Line("container_not_found"), Line("blank"),
                        Line("available_containers")>>)
            ELSE IF names = <<>> THEN Ends(<<Line("no_containers")>>)
            ELSE /\ tool_pc' = "logs"
                 /\ st_names' = names
                 /\ tool_lines' = <<Line("title")>>
                                  \o ContainerHeader(r.val, Head(names), tool_args.previous)
                 /\ tool_err' = NoErr
                 /\ issued' = Append(issued,
                                     LogCmd(r.val, Head(names), tool_args.previous))
    /\ UNCHANGED <<tool, tool_node, tool_args, pending, ocVars, promVars, fmtVars>>

\* diagnostics.py lines 54-116: the logs of the container arrive or the call
\* fails; the lines of the outcome are written, then the header of the next
\* container, and after the last container the report is returned
LogsReturn ==
    /\ tool_pc = "logs"
    /\ \E p \in LogsProcs :
         LET r == run_oc_command(p)
             name == Head(st_names)
             rest == Tail(st_names)
         IN
         /\ fetched' = [fetched EXCEPT ![LogsOf(name)] = r]
         /\ st_names' = rest
         /\ tool_lines' = tool_lines \o LogLines(name, r, tool_args.tail)
                          \o (IF rest = <<>> THEN <<>>
                              ELSE ContainerHeader(fetched["pod"].val, Head(rest),
                                                   tool_args.previous))
         /\ tool_pc' = IF rest = <<>> THEN "returned" ELSE "logs"
         /\ issued' = IF rest = <<>> THEN issued
                       ELSE Append(issued, LogCmd(fetched["pod"].val, Head(rest),
                                                  tool_args.previous))
    /\ UNCHANGED <<tool, tool_node, tool_args, pending, tool_err, ocVars, promVars, fmtVars>>

\* gpu.py lines 23-26: the phase of the pod is asked for first
InspectInvoke ==
    /\ tool_pc = "idle"
    /\ tool' = "inspect_gpu_pod"
    /\ tool_pc' = "get_phase"
    /\ issued' = <<OcCall("get", "pod phase", {})>>
    /\ UNCHANGED <<tool_node, tool_args, pending, fetched, st_names, tool_lines, tool_err,
                   ocVars, promVars, fmtVars>>

\* gpu.py lines 26-32 and 36-39: the phase arrives or the lookup fails; only
\* for Running is the exec issued
InspectPhaseReturn ==
    /\ tool_pc = "get_phase"
    /\ \E p \in PhaseProcs :
         LET r == run_oc_command(p) IN
         /\ fetched' = [fetched EXCEPT !["phase"] = r]
         /\ IF InspectPhase(r).go
            THEN /\ tool_pc' = "exec"
                 /\ issued' = Append(issued, OcCall("exec", "nvidia-smi", {}))
                 /\ UNCHANGED <<tool_lines, tool_err>>
            ELSE /\ Finish(InspectPhase(r).out)
                 /\ UNCHANGED issued
    /\ UNCHANGED <<tool, tool_node, tool_args, pending, st_names, ocVars, promVars, fmtVars>>

\* gpu.py lines 32-39: the exec returns or fails
InspectExecReturn ==
    /\ tool_pc = "exec"
    /\ \E p \in ExecProcs :
         LET r == run_oc_command(p) IN
         /\ fetched' = [fetched EXCEPT !["exec"] = r]
         /\ Finish(InspectExec(r))
    /\ UNCHANGED <<tool, tool_node, tool_args, pending, st_names, issued,
                   ocVars, promVars, fmtVars>>

\* diagnostics.py lines 132-134: the pod is fetched first
DiagInvoke ==
    /\ tool_pc = "idle"
    /\ tool' = "get_pod_diagnostics"
    /\ tool_pc' = "diag_pod"
    /\ issued' = <<OcCall("get", "pod", {})>>
    /\ UNCHANGED <<tool_node, tool_args, pending, fetched, st_names, tool_lines, tool_err,
                   ocVars, promVars, fmtVars>>

\* diagnostics.py lines 134-233 and 273-274: the pod arrives and the report
\* is written down to the table of the containers, then the events are asked
\* for; an OCError becomes the error text
DiagPodReturn ==
    /\ tool_pc = "diag_pod"
    /\ \E p \in FetchProcs(PodTexts) :
         LET r == run_oc_json(p) IN
         /\ fetched' = [fetched EXCEPT !["pod"] = r]
         /\ IF ~r.ok
            THEN /\ Finish([raised |-> FALSE, err |-> NoErr,
                            lines |-> <<ErrorLine("Error accessing pod", r.err)>>])
                 /\ UNCHANGED issued
            ELSE /\ tool_pc' = "get_events"
                 /\ tool_lines' = DiagHead(r.val)
                 /\ tool_err' = NoErr
                 /\ issued' = Append(issued, OcCall("get", "events", {}))
    /\ UNCHANGED <<tool, tool_node, tool_args, pending, st_names, ocVars, promVars, fmtVars>>

\* diagnostics.py lines 229-271: the events arrive or the lookup fails, and
\* the report is finished
DiagEventsReturn ==
    /\ tool_pc = "get_events"
    /\ \E p \in FetchProcs(EventsTexts) :
         LET r == run_oc_json(p) IN
         /\ fetched' = [fetched EXCEPT !["events"] = r]
         /\ Finish(DiagTail(fetched["pod"].val, r))
    /\ UNCHANGED <<tool, tool_node, tool_args, pending, st_names, issued,
                   ocVars, promVars, fmtVars>>

NextTools ==
    \/ DiagInvoke
    \/ DiagPodReturn
    \/ DiagEventsReturn
    \/ InspectInvoke
    \/ InspectPhaseReturn
    \/ InspectExecReturn
    \/ BalanceInvoke
    \/ \E container \in {None, "c1", "zz"}, previous \in BOOLEAN, tail \in Tails :
          LogsInvoke(container, previous, tail)
    \/ LogsPodReturn
    \/ LogsReturn
    \/ \E threshold \in Thresholds : PvcInvoke(threshold)
    \/ PvcListReturn
    \/ PvcPodsReturn
    \/ PvcStatsReturn
    \/ GpuUtilizationInvoke
    \/ GpuHealthInvoke
    \/ GpuQueryReturn
    \/ \E f \in FetchNames : FetchReturn(f)
    \/ BalanceResume
    \/ \E node \in {None} \cup NodeNames : StorageInvoke(node)
    \/ StorageNodesReturn
    \/ StorageStatsReturn
    \/ RestartsInvoke
    \/ RestartsQueryReturn

SpecTools == InitTools /\ [][NextTools]_vars

----------------------------------------------------------------------------
(* Claims about the report builders *)

\* the call the tool starts with failed
PrimaryFailed ==
    \/ tool \in {"get_cluster_resource_balance", "get_cluster_storage_report"}
          /\ tool_node = None /\ fetched["nodes"] # NotFetched /\ ~fetched["nodes"].ok
    \/ tool = "detect_pod_restarts_anomalies"
          /\ fetched["query"] # NotFetched /\ ~fetched["query"].ok

\* C9: no tool raises past its boundary, whatever fails and however malformed
\* the data of the cluster is; when its primary call failed, what it returns
\* is an error string of a single line.
C9_NeverRaises ==
    /\ tool_pc # "raised"
    /\ (tool_pc = "returned" /\ PrimaryFailed)
          => (Len(tool_lines) = 1 /\ tool_lines[1].kind = "error")

Kinds(lines) == [i \in 1..Len(lines) |-> lines[i].kind]

\* a node list the report can be built from
NodesUsable(r) == r.ok /\ ~IsJsonList(r.val) /\ NodeStatsError(NodeItems(r.val)) = NoErr

\* C10: in get_cluster_resource_balance, when the node list is usable and
\* exactly one of the pod list and the node usage failed, the tool returns a
\* report that is no error and that shows the missing dataset: its lines
\* differ from those of the report for that dataset fetched and empty.
C10_PartialFailureMarked ==
    (tool = "get_cluster_resource_balance" /\ tool_pc = "returned"
        /\ NodesUsable(fetched["nodes"]))
    => /\ (~fetched["pods"].ok /\ fetched["usage"].ok)
            => /\ tool_lines[1].kind # "error"
               /\ Kinds(tool_lines)
                     # Kinds(BalanceReport(fetched["nodes"], Ok("pods[]"),
                                           fetched["usage"]).lines)
       /\ (~fetched["usage"].ok /\ fetched["pods"].ok /\ ~IsJsonList(fetched["pods"].val))
            => /\ tool_lines[1].kind # "error"
               /\ Kinds(tool_lines)
                     # Kinds(BalanceReport(fetched["nodes"], fetched["pods"],
                                           Ok("\n")).lines)

\* the rows of the table of a report
Rows(lines) == SelectSeq(lines, LAMBDA l : l.kind = "row")

\* get_cluster_resource_balance returned a report built from a node list and
\* a pod list
BalanceReported ==
    /\ tool = "get_cluster_resource_balance" /\ tool_pc = "returned"
    /\ NodesUsable(fetched["nodes"])
    /\ fetched["pods"].ok /\ ~IsJsonList(fetched["pods"].val)
    /\ tool_lines[1].kind # "error"

\* the requests of the non-terminal pods assigned to a node, summed over their
\* containers, in thousandths
RECURSIVE ClaimedRequests(_, _)
ClaimedRequests(pods, name) ==
    IF pods = <<>> THEN [cpu |-> 0, mem |-> 0, count |-> 0]
    ELSE LET pod == Head(pods)
             rest == ClaimedRequests(Tail(pods), name)
             cs == pod.containers
         IN IF pod.nodeName = name /\ pod.phase # "Succeeded" /\ pod.phase # "Failed"
            THEN [cpu |-> rest.cpu + SumSeq([k \in 1..Len(cs) |-> parse_quantity(cs[k].cpu).val]),
                  mem |-> rest.mem + SumSeq([k \in 1..Len(cs) |-> parse_quantity(cs[k].mem).val]),
                  count |-> rest.count + 1]
            ELSE rest

\* C18: the table has exactly one row per listed node, in the order of the
\* node names; the request cells of a row are the summed CPU and memory
\* requests of the non-terminal pods assigned to the node over its allocatable
\* capacity; a node without pods shows zero and a pod count of zero; pods of
\* unlisted nodes change no row.
C18_RowsPerNode ==
    BalanceReported =>
        LET items == NodeItems(fetched["nodes"].val)
            pods == PodItems(fetched["pods"].val)
            rows == Rows(tool_lines)
        IN /\ Len(rows) = Len(items)
           /\ \A i \in 1..Len(items) : \E k \in 1..Len(rows) : rows[k].node = items[i].name
           /\ \A j, k \in 1..Len(rows) : j < k => NameRank(rows[j].node) < NameRank(rows[k].node)
           /\ \A k \in 1..Len(rows) :
                 \A i \in 1..Len(items) :
                    items[i].name = rows[k].node
                       => LET want == ClaimedRequests(pods, rows[k].node) IN
                          /\ rows[k].cells.cpu_req.part = want.cpu
                          /\ rows[k].cells.cpu_req.whole = parse_quantity(items[i].cpu).val
                          /\ rows[k].cells.mem_req.part = want.mem
                          /\ rows[k].cells.mem_req.whole = parse_quantity(items[i].mem).val
                          /\ rows[k].cells.pod_count = want.count

C18_Witness ==
    /\ BalanceReported
    /\ fetched["nodes"].val = "nodes[n2,n1]"
    /\ fetched["pods"].val = "pods[a@n1,b@n1 Succeeded,c@n3,d unscheduled,e@n1]"
    /\ Len(Rows(tool_lines)) = 2
    /\ Rows(tool_lines)[1].node = "n1"
    /\ Rows(tool_lines)[1].cells.cpu_req.part = 950
    /\ Rows(tool_lines)[1].cells.pod_count = 2
    /\ Rows(tool_lines)[2].cells.cpu_req.part = 0
    /\ Rows(tool_lines)[2].cells.pod_count = 0

\* a row with a highlighted percentage
RowHighlighted(row) ==
    \/ row.cells.cpu_req.bold \/ row.cells.cpu_used.bold
    \/ row.cells.mem_req.bold \/ row.cells.mem_used.bold

\* a row whose request percentage is highlighted
RequestHighlighted(row) == row.cells.cpu_req.bold \/ row.cells.mem_req.bold

\* C19: the Insights block is in the report if and only if a row of the table
\* has a highlighted percentage (85% or more); a node whose request percentage
\* is exactly 85% is highlighted and counted in the Insights block.
C19_InsightsIffHighlighted ==
    (tool = "get_cluster_resource_balance" /\ tool_pc = "returned"
        /\ tool_lines[1].kind # "error")
    => LET rows == Rows(tool_lines)
           insights == SelectSeq(tool_lines, LAMBDA l : l.kind = "scheduling_pressure")
       IN /\ (\E k \in 1..Len(rows) : RowHighlighted(rows[k])) <=> insights # <<>>
          /\ \A k \in 1..Len(rows) :
                rows[k].cells.cpu_req.part * 100 = 85 * rows[k].cells.cpu_req.whole
                   => /\ rows[k].cells.cpu_req.bold
                      /\ insights # <<>>
          /\ insights # <<>>
                => insights[1].n = Len(SelectSeq(rows, RequestHighlighted))

\* the query of a metric was issued and did not succeed: it raised, or its
\* envelope has a status that is not success
QueryFailed(name) ==
    /\ fetched[name] # NotFetched
    /\ (fetched[name].ok => EnvelopeStatus(fetched[name].val) # "success")

\* the tool ended and the failure of the query of the metric is not what it
\* raised
Survived(name) ==
    /\ tool_pc \in {"returned", "raised"}
    /\ QueryFailed(name) /\ ~Escapes(fetched[name])
    /\ tool_pc = "raised" => tool_err # fetched[name].err

\* the lines of the report the tool returned, none when it raised
Shown == IF tool_pc = "returned" THEN tool_lines ELSE <<>>

\* C11: when the query of a metric fails or its status is not success,
\* detect_pod_restarts_anomalies, get_gpu_utilization and check_gpu_health
\* do not abort on it and never present that metric as measured or healthy:
\* no table and no all-clear for the restarts, no utilization number in a row
\* and no all-normal line, no all-clear for XID errors or for throttling.
C11_FailedQueryIsNoData ==
    /\ (tool = "detect_pod_restarts_anomalies" /\ tool_pc \in {"returned", "raised"}
          /\ QueryFailed("query") /\ ~Escapes(fetched["query"]))
          => /\ Survived("query")
             /\ \A i \in 1..Len(Shown) : Shown[i].kind \notin {"row", "no_restarts"}
    /\ (tool = "get_gpu_utilization" /\ tool_pc \in {"returned", "raised"}
          /\ QueryFailed("utilization") /\ ~Escapes(fetched["utilization"]))
          => /\ Survived("utilization")
             /\ \A i \in 1..Len(Shown) :
                   Shown[i].kind = "row" => Shown[i].cells.util.shown # "number"
             /\ \A i \in 1..Len(Shown) : Shown[i].kind # "all_normal"
    /\ (tool = "check_gpu_health" /\ tool_pc \in {"returned", "raised"}
          /\ QueryFailed("xid_errors") /\ ~Escapes(fetched["xid_errors"]))
          => /\ Survived("xid_errors")
             /\ \A i \in 1..Len(Shown) : Shown[i].kind # "no_xid_errors"
    /\ (tool = "check_gpu_health" /\ tool_pc \in {"returned", "raised"}
          /\ QueryFailed("throttle") /\ ~Escapes(fetched["throttle"]))
          => /\ Survived("throttle")
             /\ \A i \in 1..Len(Shown) : Shown[i].kind # "no_throttling"

\* the report has a line of the kind
HasKind(lines, kind) == \E i \in 1..Len(lines) : lines[i].kind = kind

\* the tool returned and what it fetched holds no row of data: no node, no
\* sample of any query, no claim that could be analyzed
ZeroRows ==
    /\ tool_pc = "returned"
    /\ \/ tool = "get_cluster_resource_balance"
             /\ NodesUsable(fetched["nodes"]) /\ NodeItems(fetched["nodes"].val) = <<>>
       \/ tool = "detect_pod_restarts_anomalies"
             /\ fetched["query"].ok /\ EnvelopeStatus(fetched["query"].val) = "success"
             /\ EnvelopeResult(fetched["query"].val) = <<>>
       \/ tool = "get_gpu_utilization"
             /\ \A q \in {"utilization", "memory_used", "memory_free"} :
                   fetched[q].ok /\ MetricList(fetched[q]) = <<>>
       \/ tool = "check_persistent_volume_capacity"
             /\ fetched["pvcs"].ok
             /\ \/ PvcItems(fetched["pvcs"].val) = <<>>
                \/ fetched["mount_pods"].ok
                      /\ \A n \in NodesToFetch(MountPods(fetched["mount_pods"].val)) :
                            ~NodeStatsCache[n].ok

\* the lines that say that there is nothing to report
NoDataKinds == {"all_normal", "no_restarts", "no_gpu_metrics", "no_pvcs", "no_usage_statistics"}

\* C17: a returned report never has a table header without a data row, and a
\* report builder whose datasets hold zero rows (get_cluster_resource_balance
\* with no node, detect_pod_restarts_anomalies with no result,
\* get_gpu_utilization with no sample, check_persistent_volume_capacity with
\* no analyzed claim) emits its all-normal or no-data line instead of a table.
C17_NoEmptyTable ==
    /\ (tool_pc = "returned" /\ HasKind(tool_lines, "table_header"))
          => Rows(tool_lines) # <<>>
    /\ ZeroRows
          => /\ ~HasKind(tool_lines, "table_header")
             /\ \E k \in NoDataKinds : HasKind(tool_lines, k)

\* the report has a line of the kind for the container
HasLineOf(kind, name) ==
    \E i \in 1..Len(tool_lines) : tool_lines[i].kind = kind /\ tool_lines[i].node = name

\* the logs call failed because the container has no previous terminated
\* instance: the cluster answered so
NoPreviousCause(r) == ~r.ok /\ InSeq(NoPreviousStderr, StrOf(r.err))

\* C20: in get_pod_logs a logs call that fails because there is no previous
\* terminated container gives the no-previous-logs note for its container,
\* the remaining containers are still processed and the tool returns a report
\* that is no error; a logs call that fails for any other cause gives an
\* error line for its container and not the note.
C20_LogsFailureRendering ==
    tool = "get_pod_logs" =>
        \A name \in ContainerNames :
            LET r == fetched[LogsOf(name)] IN
            (r # NotFetched /\ ~r.ok) =>
                IF NoPreviousCause(r)
                THEN /\ HasLineOf("no_previous_logs", name)
                     /\ ~HasLineOf("logs_error", name)
                     /\ tool_pc # "raised"
                     /\ tool_pc = "returned"
                           => /\ tool_lines[1].kind # "error"
                              /\ \A c \in ContainerNames :
                                    InSeq(c, Containers(fetched["pod"].val,
                                                        tool_args.container))
                                       => HasLineOf("container_header", c)
                ELSE /\ HasLineOf("logs_error", name)
                     /\ ~HasLineOf("no_previous_logs", name)

\* the entries of pvc_data of a returned report, from what the tool fetched
Analyzed ==
    IF tool = "check_persistent_volume_capacity" /\ tool_pc = "returned"
       /\ fetched["pvcs"].ok /\ fetched["mount_pods"].ok
    THEN PvcData(PvcItems(fetched["pvcs"].val), MountPods(fetched["mount_pods"].val),
                 NodeStatsCache)
    ELSE <<>>

\* the severity class of the claim: the usage in percent is used * 100 / capacity
SeverityClass(e, threshold) ==
    IF e.used * 100 >= 95 * e.capacity THEN "critical"
    ELSE IF e.used * 100 >= threshold * e.capacity THEN "warning"
    ELSE "healthy"

\* C22: check_persistent_volume_capacity lists every analyzed claim in
\* exactly one severity class, for every threshold: critical at 95% and above,
\* warning at the threshold and above and below 95%, healthy below the
\* threshold.
C22_OneSeverityClass ==
    \A i \in 1..Len(Analyzed) :
        \A kind \in {"critical", "warning", "healthy"} :
            HasLineOf(kind, Analyzed[i].name)
                <=> kind = SeverityClass(Analyzed[i], tool_args.threshold)

\* get_gpu_utilization returned a report with its table
GpuTableReturned ==
    tool = "get_gpu_utilization" /\ tool_pc = "returned" /\ HasKind(tool_lines, "table_header")

\* the status of a utilization in thousandths of a percent
ClaimedStatus(util) ==
    IF util = 0 THEN "Idle" ELSE IF util > 90000 THEN "High" ELSE "Active"

\* C23: every row of get_gpu_utilization has the one status of the
\* utilization it shows: Idle at 0, High above 90, Active otherwise; the
\* Insights block is there exactly when a row is Idle or High, and the
\* all-operating-normally line exactly when none is.
C23_GpuStatus ==
    GpuTableReturned =>
        LET rows == Rows(tool_lines)
            flagged == \E i \in 1..Len(rows) : rows[i].cells.status \in {"Idle", "High"}
        IN /\ \A i \in 1..Len(rows) :
                 rows[i].cells.status = ClaimedStatus(rows[i].cells.util.val)
           /\ HasKind(tool_lines, "insights_header") <=> flagged
           /\ HasKind(tool_lines, "all_normal") <=> ~flagged

C23_Witness ==
    /\ GpuTableReturned
    /\ \E i \in 1..Len(tool_lines) :
          /\ tool_lines[i].kind = "row"
          /\ tool_lines[i].cells.util.val = 90000
          /\ tool_lines[i].cells.status = "Active"
    /\ HasKind(tool_lines, "all_normal")

\* C26: get_gpu_utilization reports a GPU as Idle only when the utilization
\* query returned a sample of value 0 for it; a GPU known from the memory
\* metrics alone is not reported as Idle.
C26_IdleOnlyWhenMeasured ==
    GpuTableReturned =>
        \A i \in 1..Len(tool_lines) :
            (tool_lines[i].kind = "row" /\ tool_lines[i].cells.status = "Idle")
                => \E k \in 1..Len(MetricList(fetched["utilization"])) :
                      LET x == MetricList(fetched["utilization"])[k] IN
                      /\ <<x.node, x.gpu>> = <<tool_lines[i].node, tool_lines[i].cells.gpu>>
                      /\ Float(x.value) = NumOk(0)

BalanceFetches == {"nodes", "pods", "usage"}

\* a step of get_cluster_resource_balance: its start hands all three fetches
\* to gather together, a fetch that finishes leaves the others as they are,
\* and the report is built in a step that finds all three finished
GatherStep ==
    /\ (tool_pc = "idle" /\ tool' = "get_cluster_resource_balance")
          => /\ pending' = BalanceFetches
             /\ \A f \in BalanceFetches : fetched'[f] = NotFetched
    /\ (tool = "get_cluster_resource_balance" /\ tool_pc = "gather" /\ tool_pc' # "gather")
          => /\ pending = {}
             /\ \A f \in BalanceFetches : fetched[f] # NotFetched
             /\ fetched' = fetched

\* C24: get_cluster_resource_balance launches the node list, the pod list and
\* the node usage together, builds its report only when all three have
\* finished, each with a result or an exception, and the report is the same
\* for every order in which they finish: it is determined by the three
\* outcomes.
C24_GatherAll ==
    /\ [][GatherStep]_vars
    /\ []((tool = "get_cluster_resource_balance" /\ tool_pc = "returned")
            => tool_lines = BalanceReport(fetched["nodes"], fetched["pods"],
                                          fetched["usage"]).lines)
    /\ []((tool = "get_cluster_resource_balance" /\ tool_pc = "gather")
            => \A f \in BalanceFetches : f \in pending <=> fetched[f] = NotFetched)

\* the report was built although the node usage had failed
C24_Witness ==
    /\ tool = "get_cluster_resource_balance" /\ tool_pc = "returned"
    /\ fetched["nodes"].ok /\ fetched["pods"].ok /\ ~fetched["usage"].ok
    /\ fetched["usage"] # NotFetched
    /\ Rows(tool_lines) # <<>>

\* the logs commands get_pod_logs has issued
LogsIssued == SelectSeq(issued, LAMBDA c : c.verb = "logs")

\* the pod reports the container as waiting in CrashLoopBackOff after a restart
CrashLooping(doc, name) ==
    \E i \in 1..Len(PodSpec(doc).statuses) :
       /\ PodSpec(doc).statuses[i].name = name
       /\ PodSpec(doc).statuses[i].state = "waiting"
       /\ PodSpec(doc).statuses[i].reason = "CrashLoopBackOff"
       /\ PodSpec(doc).statuses[i].restartCount > 0

\* C28: every logs command of get_pod_logs carries --previous exactly when
\* the caller asked for previous logs or the container of that command waits
\* in CrashLoopBackOff with a restart count above 0, whatever the state of
\* the other containers; and when the named container is none of the pod, no
\* logs command is issued.
C28_PreviousPerContainer ==
    tool = "get_pod_logs" =>
        /\ \A i \in 1..Len(LogsIssued) :
              "--previous" \in LogsIssued[i].flags
                 <=> (tool_args.previous
                      \/ CrashLooping(fetched["pod"].val, LogsIssued[i].target))
        /\ (/\ fetched["pod"].ok
            /\ Truthy(tool_args.container)
            /\ ~InSeq(tool_args.container,
                      PodSpec(fetched["pod"].val).initContainers
                      \o PodSpec(fetched["pod"].val).containers))
              => LogsIssued = <<>>

C28_Witness ==
    /\ tool = "get_pod_logs"
    /\ tool_pc = "returned"
    /\ ~tool_args.previous
    /\ fetched["pod"].ok
    /\ fetched["pod"].val = "pod{init, c1 CrashLoopBackOff}"
    /\ LogsIssued = <<OcCall("logs", "init", {}), OcCall("logs", "c1", {"--previous"})>>

\* C29: for every tail of 0 or more, the log lines get_pod_logs shows for a
\* container are at most tail, and when the log has more lines than tail they
\* are its last tail lines in their order.
C29_TailLimit ==
    (tool = "get_pod_logs" /\ tool_args.tail >= 0) =>
        \A name \in ContainerNames, i \in 1..Len(tool_lines) :
            (tool_lines[i].kind = "logs" /\ tool_lines[i].node = name) =>
                LET all == StripLogs(fetched[LogsOf(name)].val)
                    shown == tool_lines[i].cells
                IN /\ Len(shown) <= tool_args.tail
                   /\ Len(all) > tool_args.tail
                         => shown = SubSeq(all, Len(all) - tool_args.tail + 1, Len(all))

\* the exec commands inspect_gpu_pod has issued
ExecIssued == SelectSeq(issued, LAMBDA c : c.verb = "exec")

\* the phase lookup has returned the phase Running
PhaseRunning ==
    /\ fetched["phase"].ok
    /\ fetched["phase"].val \in {"Running", "Running\n"}

\* C27: inspect_gpu_pod issues the exec of nvidia-smi only once the phase
\* lookup has returned Running, and then once; with any other phase or a
\* failed lookup no exec is issued and the tool returns a message and raises
\* nothing.
C27_ExecOnlyWhenRunning ==
    tool = "inspect_gpu_pod" =>
        /\ ExecIssued # <<>> => PhaseRunning /\ Len(ExecIssued) = 1
        /\ tool_pc # "raised"
        /\ (fetched["phase"] # NotFetched /\ ~PhaseRunning)
              => /\ ExecIssued = <<>>
                 /\ fetched["exec"] = NotFetched
                 /\ tool_pc = "returned"
                 /\ Len(tool_lines) = 1
                 /\ tool_lines[1].kind \in {"not_running", "error", "nvidia_smi_not_found"}

C27_Witness ==
    /\ tool = "inspect_gpu_pod"
    /\ tool_pc = "returned"
    /\ fetched["phase"].ok
    /\ fetched["phase"].val = "Pending"
    /\ issued = <<OcCall("get", "pod phase", {})>>
    /\ tool_lines[1].kind = "not_running"

\* the report ends with the block of the recommendations or with the line
\* that says that there is no issue
EndsWithVerdict(lines) ==
    /\ lines # <<>>
    /\ \/ lines[Len(lines)].kind = "no_issues"
       \/ \E i \in 1..(Len(lines) - 1) :
             /\ lines[i].kind = "recommendations_header"
             /\ \A j \in (i + 1)..Len(lines) : lines[j].kind = "recommendation"

\* C25: for every pod the pod lookup returns, the pod without any status of a
\* container included, get_pod_diagnostics returns a report that ends with
\* the recommendations or with the no-issues line; when the events lookup
\* fails the report has its title and its pod status and no table of events.
C25_DiagnosticsVerdict ==
    (/\ tool = "get_pod_diagnostics"
     /\ fetched["pod"].ok
     /\ fetched["events"] # NotFetched)
       => /\ tool_pc = "returned"
          /\ EndsWithVerdict(tool_lines)
          /\ ~fetched["events"].ok
                => /\ tool_lines[1].kind = "title"
                   /\ HasKind(tool_lines, "phase")
                   /\ HasKind(tool_lines, "container_status_header")
                   /\ ~HasKind(tool_lines, "events_header")
                   /\ ~HasKind(tool_lines, "error")

\* the stats commands the tool has issued
StatsIssued == SelectSeq(issued, LAMBDA c : c.verb = "stats")

\* the sections of the nodes in the storage report
Sections == SelectSeq(tool_lines, LAMBDA l : l.kind \in {"node_section", "node_error"})

\* get_cluster_storage_report was invoked without a node and has read the
\* list of the nodes
NodesListed ==
    /\ tool = "get_cluster_storage_report"
    /\ ~Truthy(tool_node)
    /\ fetched["nodes"].ok
    /\ ~StorageListing(fetched["nodes"]).done

\* the claims the capacity report lists under a severity
ShownClaims ==
    {tool_lines[i].node : i \in {j \in 1..Len(tool_lines) :
                                   tool_lines[j].kind \in {"critical", "warning", "healthy"}}}

\* the storage report of C30: the stats are asked for one node at a time, in
\* the order of the list; the tool returns, and its report has one section
\* per listed node in that order, the error line for exactly the nodes whose
\* stats failed and for the others the section of their own stats
StorageSectionsPerNode ==
    NodesListed =>
        LET names == StorageListing(fetched["nodes"]).names IN
        /\ tool_pc # "raised"
        /\ tool_pc = "node_stats" => Len(StatsIssued) = Len(Sections) + 1
        /\ \A i \in 1..Len(StatsIssued) : StatsIssued[i].target = names[i]
        /\ tool_pc = "returned" =>
              /\ Len(Sections) = Len(names)
              /\ \A i \in 1..Len(names) :
                    /\ Sections[i].node = names[i]
                    /\ Sections[i].kind = "node_error" <=> ~fetched[StatsOf(names[i])].ok
                    /\ Sections[i].kind = "node_section"
                          => Sections[i].cells = <<fetched[StatsOf(names[i])].val>>

\* the capacity report of C30: no node is asked for its stats twice, and the
\* claims of a node whose stats arrived are listed whatever happened to the
\* stats of the other nodes
PvcStatsPerNode ==
    tool = "check_persistent_volume_capacity" =>
        /\ \A i, j \in 1..Len(StatsIssued) :
              StatsIssued[i].target = StatsIssued[j].target => i = j
        /\ (tool_pc = "returned" /\ fetched["pvcs"].ok /\ fetched["mount_pods"].ok) =>
              \A m \in NodeNames :
                 LET alone == PvcData(PvcItems(fetched["pvcs"].val),
                                      MountPods(fetched["mount_pods"].val),
                                      [n \in NodeNames |->
                                          IF n = m THEN fetched[StatsOf(m)] ELSE NotFetched])
                 IN \A i \in 1..Len(alone) : alone[i].name \in ShownClaims

\* C30: get_cluster_storage_report without a node emits exactly one section
\* per listed node, in listing order, fetching the stats one node at a time,
\* and a stats failure of a node puts the error line into the section of that
\* node only, without aborting or changing the other sections; and
\* check_persistent_volume_capacity fetches the stats at most once per
\* distinct node, a failed node removing only the claims on that node.
C30_PerNodeIsolation == StorageSectionsPerNode /\ PvcStatsPerNode
====
